---- MODULE Spec2Model ----
(***************************************************************************)
(* A model of the conceptual synthesis pipeline (rsdouglas/conceptual).   *)
(*                                                                         *)
(* Two shapes of the pipeline are modelled, as the repository has them:   *)
(*   - the staged-model variant: discoverProjectStructure ->              *)
(*     enrichProjectModels -> generateViewsForProject -> write ->         *)
(*     publishToViewer;                                                    *)
(*   - the flat-document variant: generateProjectOverview ->              *)
(*     discoverConcepts -> generateConceptSheets -> rationalizeContexts   *)
(*     -> writeConceptSheets -> publishToViewer.                          *)
(*                                                                         *)
(* Every `await callLLM` is a pair of steps: the call is issued (one more *)
(* call in flight) and the call returns a value or throws.  The oracle is *)
(* external and unvalidated, so its answers are drawn from small pools    *)
(* that contain well-formed and ill-formed payloads.                      *)
(***************************************************************************)
EXTENDS Naturals, Sequences, FiniteSets, TLC

(***************************************************************************)
(* Bounds of the model.                                                    *)
(***************************************************************************)
MaxModels == 2        \* models of a discovered project
MaxConcepts == 3      \* concepts of a discovered project, all models together
MaxIterations == 3    \* largest --max-discovery-iterations tried
MaxBatch == 2         \* concepts returned by one discovery iteration

\* discoverConcepts: maxIterations: number = 5
DefaultMaxIterations == 5

(***************************************************************************)
(* JavaScript values.                                                      *)
(***************************************************************************)
\* An object spread {...a, ...b}: the fields of b override those of a.
Merge(a, b) == [k \in (DOMAIN a) \cup (DOMAIN b) |-> IF k \in DOMAIN b THEN b[k] ELSE a[k]]

\* A rest destructuring const { f, ...rest } = r.
Without(r, f) == [k \in (DOMAIN r) \ {f} |-> r[k]]

Has(r, f) == f \in DOMAIN r

\* A JSON array and a JSON value that is truthy but not iterable ({}).
JsArray(items) == [kind |-> "array", items |-> items]
JsObject == [kind |-> "object"]
IsIterable(v) == v.kind = "array"

\* A callLLM that threw (transport error, no content, or JSON.parse failure).
Thrown == [thrown |-> TRUE]
IsThrown(r) == Has(r, "thrown")

\* Strings whose characters matter are sequences of one-character strings.
Letters == {"a", "b", "m", "p", "y"}
Capitals == {"A", "B", "M", "P", "Y"}
Digits == {"1", "2", "3", "4", "5", "6"}

toLowerCaseChar(ch) ==
    CASE ch = "A" -> "a"
      [] ch = "B" -> "b"
      [] ch = "M" -> "m"
      [] ch = "P" -> "p"
      [] ch = "Y" -> "y"
      [] OTHER -> ch

toLowerCase(s) == [i \in 1..Len(s) |-> toLowerCaseChar(s[i])]

IsSpace(ch) == ch \in {" ", "\t"}

\* s.replace(/\s+/g, '-'): every maximal run of white space becomes one '-'.
RECURSIVE ReplaceSpaceRuns(_)
ReplaceSpaceRuns(s) ==
    IF s = <<>> THEN <<>>
    ELSE IF IsSpace(Head(s))
         THEN IF Len(s) > 1 /\ IsSpace(s[2])
              THEN ReplaceSpaceRuns(Tail(s))
              ELSE <<"-">> \o ReplaceSpaceRuns(Tail(s))
         ELSE <<Head(s)>> \o ReplaceSpaceRuns(Tail(s))

\* s.replace(/[^a-z0-9-_]/gi, r): every other character becomes r.
ReplaceUnsafeCharsBy(s, r) ==
    [i \in 1..Len(s) |->
        IF s[i] \in Letters \cup Capitals \cup Digits \cup {"-", "_"} THEN s[i] ELSE r]

\* A file system map with one more file.
Put(f, k, v) == [n \in (DOMAIN f) \cup {k} |-> IF n = k THEN v ELSE f[n]]

(***************************************************************************)
(* The scanned repository and the oracle's answers.                        *)
(***************************************************************************)
\* scan.files, by relativePath.
RepoFiles == {"a.ts", "b.ts"}

NoName == <<>>
CustomName == <<"M", "y", " ", " ", "A", "p">>

\* What Discovery can return for a concept: one whose evidence resolves
\* against the file index and one whose evidence does not.
DiscoveredConcepts ==
    { [id |-> "order", label |-> "Order", category |-> "thing",
       description |-> "An order", references |-> {"a.ts", "gone.ts"}],
      [id |-> "user", label |-> "User", category |-> "role",
       description |-> "A user", references |-> {"gone.ts"}] }

SeqsUpTo(S, n) == UNION {[1..k -> S] : k \in 0..n}

Rel0 == [id |-> "rel-0", from |-> "order", to |-> "user", phrase |-> "placed by"]

\* The i-th model of a discovered project.  The oracle is asked for empty
\* relationships/rules/lifecycles; odd models carry them (one relationship
\* already present), even models omit the three fields altogether.
DiscoveredModel(i, concepts) ==
    IF i % 2 = 1
    THEN [id |-> i, title |-> i, concepts |-> concepts,
          relationships |-> <<Rel0>>, rules |-> <<>>, lifecycles |-> <<>>]
    ELSE [id |-> i, title |-> i, concepts |-> concepts]

RECURSIVE TotalLen(_, _)
TotalLen(cs, n) == IF n = 0 THEN 0 ELSE Len(cs[n]) + TotalLen(cs, n - 1)

DiscoveredProjects ==
    { [id |-> <<"P", "a">>, name |-> <<"P", "a">>,
       models |-> [i \in 1..n |-> DiscoveredModel(i, cs[i])]] :
         <<n, cs>> \in { x \in (0..MaxModels) \X
                                [1..MaxModels -> SeqsUpTo(DiscoveredConcepts, MaxConcepts)] :
                            TotalLen(x[2], MaxModels) <= MaxConcepts } }

\* What the enrichment call for concept c can return: a throw, the payload
\* the prompt asks for, a payload that sets id and label and leaves the lists
\* out, and a payload whose rules are an object instead of an array.
EnrichedRelationship(c) ==
    [id |-> <<"rel", c.id>>, from |-> c.id, to |-> "user", phrase |-> "has"]

EnrichmentAsAsked(c) ==
    [concept |-> [aliases |-> <<"alias">>, notes |-> "note"],
     relationships |-> JsArray(<<EnrichedRelationship(c)>>),
     rules |-> JsArray(<<[id |-> <<"rule", c.id>>, conceptIds |-> <<c.id>>]>>),
     lifecycles |-> JsArray(<<[id |-> <<"lc", c.id>>, subjectConceptId |-> c.id]>>)]

EnrichmentOverriding ==
    [concept |-> [id |-> "invented", label |-> "Renamed", aliases |-> <<>>]]

EnrichmentMalformed(c) ==
    [concept |-> [notes |-> "note"],
     relationships |-> JsArray(<<EnrichedRelationship(c)>>),
     rules |-> JsObject]

EnrichmentResults(c) ==
    {Thrown, EnrichmentAsAsked(c), EnrichmentOverriding, EnrichmentMalformed(c)}

\* What the view design call can return.
SmallView == [id |-> "overview", conceptIds |-> <<"order", "user">>,
              relationshipIds |-> <<"rel-0">>]
\* The sizes the view design prompt asks for.
MinViewConcepts == 4
MaxViewConcepts == 8
MinViewRelationships == 4
MaxViewRelationships == 10

\* A view with more concepts and relationships than the prompt asks for.
BigView ==
    [id |-> "big",
     conceptIds |-> [k \in 1..(MaxViewConcepts + 2) |->
                        IF k % 2 = 1 THEN "order" ELSE "user"],
     relationshipIds |-> [k \in 1..(MaxViewRelationships + 1) |-> "rel-0"]]

ViewResults == {Thrown, [note |-> "no views"], [views |-> <<SmallView, BigView>>]}

\* The options of a run and its environment (the API key, the viewer
\* directory beside the tool).
StagedDefaults ==
    [maxModels |-> 0, outDir |-> "out", publish |-> "true", projectName |-> NoName,
     apiKey |-> "sk", viewerDir |-> TRUE]

StagedRuns ==
    { StagedDefaults,
      [StagedDefaults EXCEPT !.outDir = "", !.publish = "undefined", !.viewerDir = FALSE],
      [StagedDefaults EXCEPT !.maxModels = 1, !.publish = "false",
                             !.projectName = CustomName],
      [StagedDefaults EXCEPT !.apiKey = ""],
      [StagedDefaults EXCEPT !.apiKey = "undefined"] }

\* What an iteration of the flat variant's Discovery can return: candidates,
\* two of them with the same name and different evidence.
CandX == [name |-> <<"A">>, references |-> {"a.ts"}]
CandX2 == [name |-> <<"A">>, references |-> {"gone.ts"}]
CandY == [name |-> <<"B", " ", "b">>, references |-> {"b.ts", "gone.ts"}]
ConceptCandidates == {CandX, CandX2, CandY}

\* A candidate under a name that no earlier iteration has returned.
DigitOf(i) ==
    CASE i = 1 -> "1" [] i = 2 -> "2" [] i = 3 -> "3" [] i = 4 -> "4" [] i = 5 -> "5"
      [] OTHER -> "6"
CandNovel(i) == [name |-> <<"n", DigitOf(i)>>, references |-> {"gone.ts"}]

\* The lists of at most MaxBatch candidates, each candidate listed once (two
\* of them may still share a name).
DiscoveryBatches ==
    {b \in SeqsUpTo(ConceptCandidates, MaxBatch) :
        \A i, j \in 1..Len(b) : i # j => b[i] # b[j]}

DiscoveryResults(i) ==
    {Thrown}
    \cup {[concepts |-> b] : b \in DiscoveryBatches}
    \cup {[concepts |-> <<CandNovel(i)>>]}

\* What the concept sheet call can return for a candidate.
SheetFor(candidate) ==
    [metadata |-> [name |-> candidate.name, boundedContext |-> "Billing"],
     definition |-> [shortDescription |-> candidate.name]]
SheetRenamed == [metadata |-> [name |-> <<"a">>]]
SheetResults(candidate) == {Thrown, SheetFor(candidate), SheetRenamed}

\* What the rationalization call can return.
RationalizationResults ==
    { Thrown,
      [contexts |-> << [name |-> "Finance",
                        conceptNames |-> << <<"A">>, <<"B", " ", "b">> >>] >>],
      [contexts |-> << [name |-> "Finance", conceptNames |-> << <<"A">> >>],
                       [name |-> "Identity", conceptNames |-> << <<"a">>, <<"A">> >>] >>] }

\* A numeric option: a number, NaN (parseInt of a non-number) or undefined.
Num(n) == [num |-> n]
NaN == [nan |-> TRUE]
Undefined == [undefined |-> TRUE]

\* The options and the environment of a run of the flat-document variant.
FlatDefaults ==
    [maxDiscoveryIterations |-> Num(1), outDir |-> "out", clean |-> FALSE,
     publish |-> "true", projectName |-> NoName, apiKey |-> "sk", viewerDir |-> TRUE]

FlatRuns ==
    {[FlatDefaults EXCEPT !.maxDiscoveryIterations = Num(n)] : n \in 0..MaxIterations}
    \cup
    { [FlatDefaults EXCEPT !.maxDiscoveryIterations = NaN],
      [FlatDefaults EXCEPT !.maxDiscoveryIterations = Undefined, !.publish = "false"],
      [FlatDefaults EXCEPT !.clean = TRUE, !.projectName = CustomName],
      [FlatDefaults EXCEPT !.viewerDir = FALSE],
      [FlatDefaults EXCEPT !.apiKey = ""],
      [FlatDefaults EXCEPT !.apiKey = "undefined", !.clean = TRUE] }

\* The files of the output directory before the run.
OldDocs ==
    { <<<<"o", "l", "d">>, "md">>, <<<<"a">>, "md">>, <<<<"n", "o", "t", "e", "s">>, "txt">> }

NoProject == [none |-> TRUE]
NothingReturned == [stage |-> "none", value |-> [none |-> TRUE]]
Returned(stage, value) == [stage |-> stage, value |-> value]
NoFile == [absent |-> TRUE]
NoRequest == [stage |-> "none"]

VARIABLES
    variant,             \* "staged" or "flat": which analyzeRepo runs
    pc,                  \* where analyzeRepo is
    opts,                \* AnalyzeOptions and the environment of the run
    inflight,            \* number of oracle calls issued and not yet returned
    request,             \* the prompt of the call in flight
    stages,              \* the stages the run has started, in order
    returned,            \* the stage and the outcome of the last call that returned
    calls,               \* oracle calls issued so far, per stage
    discoveredProject,   \* analyzeRepo: discoveredProject
    modelsToProcess,     \* enrichProjectModels: modelsToProcess
    mi,                  \* index of the model of the running for-of loop
    ci,                  \* index of the concept of the running for-of loop
    enrichedModels,      \* enrichProjectModels: enrichedModels
    enrichedConcepts,    \* enrichProjectModels: enrichedConcepts
    allRelationships,    \* enrichProjectModels: allRelationships
    allRules,            \* enrichProjectModels: allRules
    allLifecycles,       \* enrichProjectModels: allLifecycles
    modelsWithViews,     \* generateViewsForProject: modelsWithViews
    finalProject,        \* analyzeRepo: finalProject (NoProject until computed)
    outFile,             \* <outDir>/project-model.json or concept-model.json
    outWrites,           \* number of writes of that file
    viewerFiles,         \* viewer/public/models/<safe>.json, by safe name
    registry,            \* viewer/public/models/registry.json: its projects
    exitCode,            \* "running", "exit0", or "exit1" (the CLI's process.exit(1))
    allConcepts,         \* discoverConcepts: allConcepts
    iteration,           \* discoverConcepts: iteration
    hasMoreConcepts,     \* discoverConcepts: hasMoreConcepts
    conceptSheets,       \* generateConceptSheets: conceptSheets
    docs,                \* the files of <outDir>, by file name
    storyView,           \* the story viewer's storyView prop
    stepThroughMode,     \* StoryView: stepThroughMode
    currentStepIndex,    \* StoryView, StoryDiagramView: currentStepIndex
    revealedConceptIds,  \* useStoryReveal: revealedConceptIds
    revealedRelationshipIds,  \* useStoryReveal: revealedRelationshipIds
    timers,              \* the reveal timeouts set and neither fired nor cleared
    effect               \* the story and the step index the effects last ran with

cfgVars == <<variant, opts>>
callVars == <<inflight, request, returned, calls>>
enrichVars == <<modelsToProcess, enrichedModels, enrichedConcepts, allRelationships,
                allRules, allLifecycles>>
stagedVars == <<discoveredProject, enrichVars, modelsWithViews, finalProject>>
discoverVars == <<allConcepts, iteration, hasMoreConcepts>>
flatVars == <<discoverVars, conceptSheets, docs>>
outVars == <<outFile, outWrites>>
storyVars == <<storyView, stepThroughMode, currentStepIndex, revealedConceptIds,
               revealedRelationshipIds, timers, effect>>
viewerVars == <<viewerFiles, registry, storyVars>>
vars == <<cfgVars, stages, pc, exitCode, callVars, mi, ci, stagedVars, flatVars, outVars,
          viewerVars>>

NoCalls == [overview |-> 0, discover |-> 0, enrich |-> 0, views |-> 0,
            sheets |-> 0, rationalize |-> 0]

TotalCalls == calls.overview + calls.discover + calls.enrich + calls.views
              + calls.sheets + calls.rationalize

InitStagedVars ==
    /\ discoveredProject = NoProject
    /\ modelsToProcess = <<>>
    /\ mi = 1
    /\ ci = 1
    /\ enrichedModels = <<>>
    /\ enrichedConcepts = <<>>
    /\ allRelationships = <<>>
    /\ allRules = <<>>
    /\ allLifecycles = <<>>
    /\ modelsWithViews = <<>>
    /\ finalProject = NoProject

\* No story viewer is open.
NoStory == [none |-> TRUE]
NoEffect == [none |-> TRUE]
ViewerClosed ==
    /\ storyView = NoStory
    /\ stepThroughMode = FALSE
    /\ currentStepIndex = 0
    /\ revealedConceptIds = <<>>
    /\ revealedRelationshipIds = <<>>
    /\ timers = <<>>
    /\ effect = NoEffect

InitDisk ==
    /\ outFile = NoFile
    /\ outWrites = 0
    /\ viewerFiles = <<>>
    /\ registry = <<>>

InitFlatVars ==
    /\ allConcepts = <<>>
    /\ iteration = 1
    /\ hasMoreConcepts = TRUE
    /\ conceptSheets = <<>>

InitStaged ==
    /\ variant = "staged"
    /\ pc = "start"
    /\ opts \in StagedRuns
    /\ inflight = 0
    /\ request = NoRequest
    /\ stages = <<>>
    /\ returned = NothingReturned
    /\ calls = NoCalls
    /\ exitCode = "running"
    /\ InitStagedVars
    /\ InitDisk
    /\ ViewerClosed
    /\ InitFlatVars
    /\ docs = <<>>

(***************************************************************************)
(* Helpers of the staged-model variant.                                    *)
(***************************************************************************)
\* buildConceptEnrichmentPrompt(project, model, concept, snippets): what the
\* template interpolates.
BuildConceptEnrichmentPrompt(project, model, concept, snippets) ==
    [stage |-> "enrich",
     projectName |-> project.name,
     modelTitle |-> model.title,
     conceptLabel |-> concept.label,
     conceptDescription |-> concept.description,
     conceptId |-> concept.id,
     files |-> snippets]

\* The prompt of a call; only the enrichment prompt is modelled by its parts.
PromptOf(stage) ==
    IF stage = "enrich"
    THEN BuildConceptEnrichmentPrompt(discoveredProject, modelsToProcess[mi],
                                      modelsToProcess[mi].concepts[ci],
                                      {f \in RepoFiles :
                                          f \in modelsToProcess[mi].concepts[ci].references})
    ELSE [stage |-> stage]

\* await callLLM(...): the call is issued.
IssueCall(stage) ==
    /\ inflight' = inflight + 1
    /\ request' = PromptOf(stage)
    /\ calls' = [calls EXCEPT ![stage] = @ + 1]
    /\ UNCHANGED returned

\* await callLLM(...): the call returns value, or throws.
ReturnCall(stage, value) ==
    /\ inflight' = inflight - 1
    /\ request' = NoRequest
    /\ returned' = Returned(stage, value)
    /\ UNCHANGED calls

\* A stage of analyzeRepo starts.
StartStage(name) == stages' = Append(stages, name)

\* An uncaught error leaves analyzeRepo; the CLI logs it and exits with 1.
Abort ==
    /\ pc' = "aborted"
    /\ exitCode' = "exit1"

\* analyzeRepo resolves; the CLI prints its success line and the process ends.
Finish ==
    /\ pc' = "done"
    /\ exitCode' = "exit0"

\* analyzeRepo: the name and id of the project, overridden by opts.projectName.
OverrideProjectName(project, projectName) ==
    IF projectName # NoName
    THEN [project EXCEPT !.name = projectName,
                         !.id = ReplaceSpaceRuns(toLowerCase(projectName))]
    ELSE project

\* maxModels ? project.models.slice(0, maxModels) : project.models
ModelsToProcess(models, maxModels) ==
    IF maxModels # 0
    THEN SubSeq(models, 1, IF maxModels < Len(models) THEN maxModels ELSE Len(models))
    ELSE models

\* [...(model.f || [])]
OrEmpty(model, f) == IF Has(model, f) THEN model[f] ELSE <<>>

\* The referenced paths taken as they are, not resolved against the index.
RelevantFilesUnresolved(concept) == concept.references

\* files.filter(f => relevantFilePaths.includes(f.relativePath))
RelevantFiles(concept) == {f \in RepoFiles : f \in concept.references}

\* const { references, ...cleanConcept } = concept
CleanConcept(concept) == Without(concept, "references")

\* A merge without the trailing id: concept.id.
MergeEnrichmentPayloadWins(concept, e) ==
    Merge(CleanConcept(concept), IF Has(e, "concept") THEN e.concept ELSE <<>>)

\* { ...baseConcept, ...enrichment.concept, id: concept.id }
MergeEnrichment(concept, e) ==
    Merge(Merge(CleanConcept(concept), IF Has(e, "concept") THEN e.concept ELSE <<>>),
          [id |-> concept.id])

\* An assignment in place of the push: the list is replaced.
PushFieldReplaces(acc, e, f) ==
    IF ~Has(e, f) THEN acc
    ELSE IF IsIterable(e[f]) THEN [acc EXCEPT ![f] = e[f].items]
    ELSE [acc EXCEPT !.threw = TRUE]

\* if (enrichment.f) all.push(...enrichment.f): spreading a value that is not
\* iterable throws a TypeError.
PushField(acc, e, f) ==
    IF ~Has(e, f) THEN acc
    ELSE IF IsIterable(e[f]) THEN [acc EXCEPT ![f] = @ \o e[f].items]
    ELSE [acc EXCEPT !.threw = TRUE]

\* The body of the try block after callLLM has returned e.
EnrichTry(concept, e, acc) ==
    LET a1 == [acc EXCEPT !.concepts = Append(@, MergeEnrichment(concept, e))]
        a2 == PushField(a1, e, "relationships")
        a3 == IF a2.threw THEN a2 ELSE PushField(a2, e, "rules")
    IN  IF a3.threw THEN a3 ELSE PushField(a3, e, "lifecycles")

\* A catch block that logs the failure and forgets the concept.
EnrichCatchDropsConcept(concept, acc) == acc

\* The catch block.
EnrichCatch(concept, acc) ==
    [acc EXCEPT !.concepts = Append(@, CleanConcept(concept))]

\* try { callLLM ... merge ... } catch { fall back }
EnrichHandle(concept, e, acc) ==
    IF IsThrown(e) THEN EnrichCatch(concept, acc)
    ELSE LET t == EnrichTry(concept, e, acc)
         IN  IF t.threw THEN EnrichCatch(concept, t) ELSE t

\* A catch block that pushes the model as it is.
WithViewsOmitsOnFailure(model, r) ==
    IF IsThrown(r) THEN model
    ELSE Merge(model, [views |-> IF Has(r, "views") THEN r.views ELSE <<>>])

\* The returned views filtered by the sizes the prompt asks for.
WithViewsEnforcesBounds(model, r) ==
    IF IsThrown(r) THEN Merge(model, [views |-> <<>>])
    ELSE Merge(model,
               [views |-> IF Has(r, "views")
                          THEN SelectSeq(r.views,
                                   LAMBDA v :
                                      /\ Len(v.conceptIds) >= MinViewConcepts
                                      /\ Len(v.conceptIds) <= MaxViewConcepts
                                      /\ Len(v.relationshipIds) >= MinViewRelationships
                                      /\ Len(v.relationshipIds) <= MaxViewRelationships)
                          ELSE <<>>])

\* A catch block that pushes the model with empty views and empty
\* relationships.
WithViewsResetsOnFailure(model, r) ==
    IF IsThrown(r) THEN Merge(model, [views |-> <<>>, relationships |-> <<>>])
    ELSE Merge(model, [views |-> IF Has(r, "views") THEN r.views ELSE <<>>])

\* try { callLLM; push({...model, views: result.views ?? []}) } catch { views: [] }
WithViews(model, r) ==
    IF IsThrown(r) THEN Merge(model, [views |-> <<>>])
    ELSE Merge(model, [views |-> IF Has(r, "views") THEN r.views ELSE <<>>])

CurrentModel == modelsToProcess[mi]
CurrentConcept == CurrentModel.concepts[ci]

(***************************************************************************)
(* analyzeRepo, staged-model variant.                                      *)
(***************************************************************************)
\* process.env.CONCEPTGEN_API_KEY || "": an unset variable reads as "".
LlmEnvApiKey(o) == IF o.apiKey \in {"undefined", ""} THEN "" ELSE o.apiKey

\* A start that does not look at the API key.
StagedStartUnchecked ==
    /\ variant = "staged" /\ pc = "start"
    /\ pc' = "discovering" /\ IssueCall("discover") /\ UNCHANGED exitCode
    /\ UNCHANGED <<cfgVars, mi, ci, stagedVars, flatVars, outVars, viewerVars>>
    /\ StartStage("Discovery")

\* Scan, read the environment, check the API key, call Discovery.
StagedStart ==
    /\ variant = "staged" /\ pc = "start"
    /\ IF LlmEnvApiKey(opts) = ""
       THEN Abort /\ UNCHANGED callVars
       ELSE pc' = "discovering" /\ IssueCall("discover") /\ UNCHANGED exitCode
    /\ UNCHANGED <<cfgVars, mi, ci, stagedVars, flatVars, outVars, viewerVars>>
    /\ IF pc' = "discovering" THEN StartStage("Discovery") ELSE UNCHANGED stages

\* discoverProjectStructure returns or throws (nothing catches the throw); on
\* a value, enrichProjectModels starts.
DiscoverProjectStructureReturn ==
    /\ variant = "staged" /\ pc = "discovering"
    /\ \E r \in {Thrown} \cup DiscoveredProjects :
         /\ ReturnCall("discover", r)
         /\ IF IsThrown(r)
            THEN /\ Abort
                 /\ UNCHANGED <<discoveredProject, modelsToProcess>>
            ELSE /\ discoveredProject' = OverrideProjectName(r, opts.projectName)
                 /\ modelsToProcess' = ModelsToProcess(r.models, opts.maxModels)
                 /\ pc' = "enrichModel"
                 /\ UNCHANGED exitCode
    /\ mi' = 1
    /\ enrichedModels' = <<>>
    /\ UNCHANGED <<cfgVars, ci, enrichedConcepts, allRelationships, allRules,
                   allLifecycles, modelsWithViews, finalProject, flatVars, outVars,
                   viewerVars>>
    /\ IF pc' = "enrichModel" THEN StartStage("Enrichment") ELSE UNCHANGED stages

\* for (const model of modelsToProcess) { ...: the accumulators of one model.
EnrichModelBegin ==
    /\ pc = "enrichModel" /\ mi <= Len(modelsToProcess)
    /\ enrichedConcepts' = <<>>
    /\ allRelationships' = OrEmpty(CurrentModel, "relationships")
    /\ allRules' = OrEmpty(CurrentModel, "rules")
    /\ allLifecycles' = OrEmpty(CurrentModel, "lifecycles")
    /\ ci' = 1
    /\ pc' = "enrichConcept"
    /\ UNCHANGED <<cfgVars, exitCode, callVars, mi, discoveredProject, modelsToProcess,
                   enrichedModels, modelsWithViews, finalProject, flatVars, outVars,
                   viewerVars>>
    /\ UNCHANGED stages

\* A concept none of whose files resolve: kept without its references.
EnrichSkip ==
    /\ pc = "enrichConcept" /\ ci <= Len(CurrentModel.concepts)
    /\ RelevantFiles(CurrentConcept) = {}
    /\ enrichedConcepts' = Append(enrichedConcepts, CleanConcept(CurrentConcept))
    /\ ci' = ci + 1
    /\ UNCHANGED <<cfgVars, pc, exitCode, callVars, mi, discoveredProject,
                   modelsToProcess, enrichedModels, allRelationships, allRules,
                   allLifecycles, modelsWithViews, finalProject, flatVars, outVars,
                   viewerVars>>
    /\ UNCHANGED stages

\* A concept with relevant files: the enrichment call is issued.
EnrichCall ==
    /\ pc = "enrichConcept" /\ ci <= Len(CurrentModel.concepts)
    /\ RelevantFiles(CurrentConcept) # {}
    /\ IssueCall("enrich")
    /\ pc' = "enrichAwait"
    /\ UNCHANGED <<cfgVars, exitCode, mi, ci, stagedVars, flatVars, outVars, viewerVars>>
    /\ UNCHANGED stages

\* The enrichment call returns or throws.
EnrichReturn ==
    /\ pc = "enrichAwait"
    /\ \E e \in EnrichmentResults(CurrentConcept) :
         LET acc == [concepts |-> enrichedConcepts, relationships |-> allRelationships,
                     rules |-> allRules, lifecycles |-> allLifecycles, threw |-> FALSE]
             new == EnrichHandle(CurrentConcept, e, acc)
         IN  /\ ReturnCall("enrich", e)
             /\ enrichedConcepts' = new.concepts
             /\ allRelationships' = new.relationships
             /\ allRules' = new.rules
             /\ allLifecycles' = new.lifecycles
    /\ ci' = ci + 1
    /\ pc' = "enrichConcept"
    /\ UNCHANGED <<cfgVars, exitCode, mi, discoveredProject, modelsToProcess,
                   enrichedModels, modelsWithViews, finalProject, flatVars, outVars,
                   viewerVars>>
    /\ UNCHANGED stages

\* A loop that saves the project file after every enriched model.
EnrichModelEndCheckpoints ==
    /\ pc = "enrichConcept" /\ ci > Len(CurrentModel.concepts)
    /\ enrichedModels' = Append(enrichedModels,
          Merge(CurrentModel, [concepts |-> enrichedConcepts,
                               relationships |-> allRelationships,
                               rules |-> allRules,
                               lifecycles |-> allLifecycles]))
    /\ outFile' = [discoveredProject EXCEPT !.models = enrichedModels']
    /\ outWrites' = outWrites + 1
    /\ mi' = mi + 1
    /\ pc' = "enrichModel"
    /\ UNCHANGED <<cfgVars, exitCode, callVars, ci, discoveredProject, modelsToProcess,
                   enrichedConcepts, allRelationships, allRules, allLifecycles,
                   modelsWithViews, finalProject, flatVars, viewerVars>>
    /\ UNCHANGED stages

\* enrichedModels.push({...model, concepts, relationships, rules, lifecycles})
EnrichModelEnd ==
    /\ pc = "enrichConcept" /\ ci > Len(CurrentModel.concepts)
    /\ enrichedModels' = Append(enrichedModels,
          Merge(CurrentModel, [concepts |-> enrichedConcepts,
                               relationships |-> allRelationships,
                               rules |-> allRules,
                               lifecycles |-> allLifecycles]))
    /\ mi' = mi + 1
    /\ pc' = "enrichModel"
    /\ UNCHANGED <<cfgVars, exitCode, callVars, ci, discoveredProject, modelsToProcess,
                   enrichedConcepts, allRelationships, allRules, allLifecycles,
                   modelsWithViews, finalProject, flatVars, outVars, viewerVars>>
    /\ UNCHANGED stages

\* enrichProjectModels returns {...project, models: enrichedModels};
\* generateViewsForProject starts on it.
EnrichProjectModelsReturn ==
    /\ pc = "enrichModel" /\ mi > Len(modelsToProcess)
    /\ mi' = 1
    /\ modelsWithViews' = <<>>
    /\ pc' = "viewModel"
    /\ UNCHANGED <<cfgVars, exitCode, callVars, ci, discoveredProject, enrichVars,
                   finalProject, flatVars, outVars, viewerVars>>
    /\ StartStage("View Synthesis")

\* A view design call that is issued and not awaited: the loop goes on to the
\* next model while the call is in flight.
ViewCallNotAwaited ==
    /\ pc = "viewModel" /\ mi <= Len(enrichedModels)
    /\ IssueCall("views")
    /\ modelsWithViews' = Append(modelsWithViews,
                                 Merge(enrichedModels[mi], [views |-> <<>>]))
    /\ mi' = mi + 1
    /\ UNCHANGED <<cfgVars, pc, exitCode, ci, discoveredProject, enrichVars, finalProject,
                   flatVars, outVars, viewerVars>>
    /\ UNCHANGED stages

\* for (const model of project.models): the view design call is issued.
ViewCall ==
    /\ pc = "viewModel" /\ mi <= Len(enrichedModels)
    /\ IssueCall("views")
    /\ pc' = "viewAwait"
    /\ UNCHANGED <<cfgVars, exitCode, mi, ci, stagedVars, flatVars, outVars, viewerVars>>
    /\ UNCHANGED stages

\* The view design call returns or throws.
ViewReturn ==
    /\ pc = "viewAwait"
    /\ \E r \in ViewResults :
         /\ ReturnCall("views", r)
         /\ modelsWithViews' = Append(modelsWithViews, WithViews(enrichedModels[mi], r))
    /\ mi' = mi + 1
    /\ pc' = "viewModel"
    /\ UNCHANGED <<cfgVars, exitCode, ci, discoveredProject, enrichVars, finalProject,
                   flatVars, outVars, viewerVars>>
    /\ UNCHANGED stages

\* generateViewsForProject returns {...project, models: modelsWithViews}.
GenerateViewsReturn ==
    /\ pc = "viewModel" /\ mi > Len(enrichedModels)
    /\ finalProject' = [discoveredProject EXCEPT !.models = modelsWithViews]
    /\ pc' = "write"
    /\ UNCHANGED <<cfgVars, exitCode, callVars, mi, ci, discoveredProject, enrichVars,
                   modelsWithViews, flatVars, outVars, viewerVars>>
    /\ StartStage("Assembly")

\* The project file written whether or not an output directory is given.
WriteProjectFileAlways ==
    /\ variant = "staged" /\ pc = "write"
    /\ outFile' = finalProject /\ outWrites' = outWrites + 1
    /\ pc' = "publish"
    /\ UNCHANGED <<cfgVars, exitCode, callVars, mi, ci, stagedVars, flatVars, viewerVars>>
    /\ StartStage("Persistence")

\* if (opts.outDir) write <outDir>/project-model.json
WriteProjectFile ==
    /\ variant = "staged" /\ pc = "write"
    /\ IF opts.outDir # ""
       THEN outFile' = finalProject /\ outWrites' = outWrites + 1
       ELSE UNCHANGED outVars
    /\ pc' = "publish"
    /\ UNCHANGED <<cfgVars, exitCode, callVars, mi, ci, stagedVars, flatVars, viewerVars>>
    /\ IF opts.outDir # "" THEN StartStage("Persistence") ELSE UNCHANGED stages

(***************************************************************************)
(* publishToViewer (both variants).                                        *)
(***************************************************************************)
\* id.replace(/[^a-z0-9-_]/gi, '-').toLowerCase()
SafeName(id) == toLowerCase(ReplaceUnsafeCharsBy(id, "-"))

\* path.basename(repoRoot)
RepoBaseName == <<"m", "y", "_", "A", "p">>

\* The staged variant publishes the project under its id, the flat variant
\* publishes the model under opts.projectName || path.basename(repoRoot).
PublishedId ==
    IF variant = "staged" THEN finalProject.id
    ELSE IF opts.projectName # NoName THEN opts.projectName ELSE RepoBaseName

PublishedName ==
    IF variant = "staged" THEN finalProject.name ELSE PublishedId

PublishedContent == IF variant = "staged" THEN finalProject ELSE outFile

ProjectEntry(safeName, name) ==
    [id |-> safeName, name |-> name, path |-> <<"models", safeName>>]

\* registry.projects.findIndex(p => p.id === safeName), 0 when there is none.
FindIndex(projects, safeName) ==
    IF \E i \in 1..Len(projects) : projects[i].id = safeName
    THEN CHOOSE i \in 1..Len(projects) :
            /\ projects[i].id = safeName
            /\ \A j \in 1..(i - 1) : projects[j].id # safeName
    ELSE 0

\* An update that pushes the entry whether or not its id is there.
UpsertAlwaysPushes(projects, entry) == Append(projects, entry)

\* An update that starts from an empty registry whatever the file holds.
UpsertStartsAfresh(projects, entry) == <<entry>>

\* Replace the entry with this id in place, or append the entry.
Upsert(projects, entry) ==
    LET existingIndex == FindIndex(projects, entry.id)
    IN  IF existingIndex > 0
        THEN [projects EXCEPT ![existingIndex] = entry]
        ELSE Append(projects, entry)

\* if (opts.publish !== false) publishToViewer(...); nothing is done when the
\* viewer directory does not exist.
PublishStart ==
    /\ pc = "publish"
    /\ IF opts.publish # "false" /\ opts.viewerDir
       THEN pc' = "publishProject" /\ UNCHANGED exitCode
       ELSE Finish
    /\ UNCHANGED <<cfgVars, callVars, mi, ci, stagedVars, flatVars, outVars, viewerVars>>
    /\ IF opts.publish # "false" THEN StartStage("Publish") ELSE UNCHANGED stages

\* The project file write whose error leaves publishToViewer.
PublishProjectFileRethrows ==
    /\ pc = "publishProject"
    /\ \E written \in BOOLEAN :
         IF written
         THEN /\ viewerFiles' = Put(viewerFiles, SafeName(PublishedId), PublishedContent)
              /\ pc' = "publishRegistry"
              /\ UNCHANGED exitCode
         ELSE /\ Abort
              /\ UNCHANGED viewerFiles
    /\ UNCHANGED <<cfgVars, callVars, mi, ci, stagedVars, flatVars, outVars, registry,
                   storyVars>>
    /\ UNCHANGED stages

\* The project file write whose error is logged on its own, the registry
\* update following in either case.
PublishProjectFileCatchesItsOwnError ==
    /\ pc = "publishProject"
    /\ \E written \in BOOLEAN :
         IF written
         THEN viewerFiles' = Put(viewerFiles, SafeName(PublishedId), PublishedContent)
         ELSE UNCHANGED viewerFiles
    /\ pc' = "publishRegistry"
    /\ UNCHANGED <<cfgVars, exitCode, callVars, mi, ci, stagedVars, flatVars, outVars,
                   registry, storyVars>>
    /\ UNCHANGED stages

\* fs.writeFileSync(projectPath, ...): written, or an error that the
\* surrounding try/catch logs.
PublishProjectFile ==
    /\ pc = "publishProject"
    /\ \E written \in BOOLEAN :
         IF written
         THEN /\ viewerFiles' = Put(viewerFiles, SafeName(PublishedId), PublishedContent)
              /\ pc' = "publishRegistry"
              /\ UNCHANGED exitCode
         ELSE /\ Finish
              /\ UNCHANGED viewerFiles
    /\ UNCHANGED <<cfgVars, callVars, mi, ci, stagedVars, flatVars, outVars, registry,
                   storyVars>>
    /\ UNCHANGED stages

\* Read the registry, upsert the entry, write the registry back.
PublishRegistry ==
    /\ pc = "publishRegistry"
    /\ \E written \in BOOLEAN :
         IF written
         THEN registry' = Upsert(registry,
                                 ProjectEntry(SafeName(PublishedId), PublishedName))
         ELSE UNCHANGED registry
    /\ Finish
    /\ UNCHANGED <<cfgVars, callVars, mi, ci, stagedVars, flatVars, outVars, viewerFiles,
                   storyVars>>
    /\ UNCHANGED stages

(***************************************************************************)
(* analyzeRepo, flat-document variant.                                     *)
(***************************************************************************)
\* The maxIterations parameter: the default applies to undefined only.
MaxIterationsParam(o) ==
    IF o.maxDiscoveryIterations = Undefined THEN Num(DefaultMaxIterations)
    ELSE o.maxDiscoveryIterations

\* A loop condition that is off by one.
WithinIterationsOffByOne(i, maxIterations) ==
    IF maxIterations = NaN THEN FALSE ELSE i <= maxIterations.num + 1

\* iteration <= maxIterations; every comparison with NaN is false.
WithinIterations(i, maxIterations) ==
    IF maxIterations = NaN THEN FALSE ELSE i <= maxIterations.num

\* result.concepts.filter(c => !allConcepts.some(e => e.name === c.name))
NewConcepts(all, returnedConcepts) ==
    SelectSeq(returnedConcepts, LAMBDA c : ~\E i \in 1..Len(all) : all[i].name = c.name)

\* A loop body that stops on an empty response only.
DiscoverMergeStopsOnEmptyOnly(all, hasMore, result) ==
    [allConcepts |-> all \o NewConcepts(all, result.concepts),
     hasMoreConcepts |-> IF Len(result.concepts) = 0 THEN FALSE ELSE hasMore]

\* The body of the loop after callLLM has returned result.
DiscoverMerge(all, hasMore, result) ==
    LET newConcepts == NewConcepts(all, result.concepts)
        merged == IF Len(newConcepts) > 0 THEN all \o newConcepts ELSE all
        more == IF Len(newConcepts) > 0 THEN hasMore ELSE FALSE
    IN  [allConcepts |-> merged,
         hasMoreConcepts |-> IF Len(result.concepts) = 0 THEN FALSE ELSE more]

\* Scan, read the environment, check the API key, ask for the overview.
FlatStart ==
    /\ variant = "flat" /\ pc = "start"
    /\ IF LlmEnvApiKey(opts) = ""
       THEN Abort /\ UNCHANGED callVars
       ELSE pc' = "overview" /\ IssueCall("overview") /\ UNCHANGED exitCode
    /\ UNCHANGED <<cfgVars, mi, ci, stagedVars, flatVars, outVars, viewerVars>>
    /\ IF pc' = "overview" THEN StartStage("Overview") ELSE UNCHANGED stages

\* generateProjectOverview returns or throws (nothing catches the throw); on
\* a value discoverConcepts starts.
GenerateProjectOverviewReturn ==
    /\ pc = "overview"
    /\ \E overview \in {Thrown, [summary |-> "s"]} :
         /\ ReturnCall("overview", overview)
         /\ IF IsThrown(overview) THEN Abort ELSE pc' = "discoverLoop" /\ UNCHANGED exitCode
    /\ allConcepts' = <<>>
    /\ iteration' = 1
    /\ hasMoreConcepts' = TRUE
    /\ UNCHANGED <<cfgVars, mi, ci, stagedVars, conceptSheets, docs, outVars, viewerVars>>
    /\ IF pc' = "discoverLoop" THEN StartStage("Discovery") ELSE UNCHANGED stages

\* while (hasMoreConcepts && iteration <= maxIterations): the call is issued.
DiscoverCall ==
    /\ pc = "discoverLoop"
    /\ hasMoreConcepts /\ WithinIterations(iteration, MaxIterationsParam(opts))
    /\ IssueCall("discover")
    /\ pc' = "discoverAwait"
    /\ UNCHANGED <<cfgVars, exitCode, mi, ci, stagedVars, flatVars, outVars, viewerVars>>
    /\ UNCHANGED stages

\* A discovery call whose throw is caught: the loop ends and the run goes on
\* with what was found.
DiscoverReturnCatchesThrow ==
    /\ pc = "discoverAwait"
    /\ \E result \in DiscoveryResults(iteration) :
         /\ ReturnCall("discover", result)
         /\ IF IsThrown(result)
            THEN /\ hasMoreConcepts' = FALSE
                 /\ UNCHANGED <<allConcepts, iteration>>
            ELSE LET m == DiscoverMerge(allConcepts, hasMoreConcepts, result)
                 IN  /\ allConcepts' = m.allConcepts
                     /\ hasMoreConcepts' = m.hasMoreConcepts
                     /\ iteration' = iteration + 1
    /\ pc' = "discoverLoop"
    /\ UNCHANGED <<cfgVars, exitCode, mi, ci, stagedVars, conceptSheets, docs, outVars,
                   viewerVars>>
    /\ UNCHANGED stages

\* A discovery call after which the iteration counter is not advanced.
DiscoverReturnKeepsIteration ==
    /\ pc = "discoverAwait"
    /\ \E result \in DiscoveryResults(iteration) :
         /\ ReturnCall("discover", result)
         /\ IF IsThrown(result)
            THEN /\ Abort
                 /\ UNCHANGED discoverVars
            ELSE LET m == DiscoverMerge(allConcepts, hasMoreConcepts, result)
                 IN  /\ allConcepts' = m.allConcepts
                     /\ hasMoreConcepts' = m.hasMoreConcepts
                     /\ UNCHANGED iteration
                     /\ pc' = "discoverLoop"
                     /\ UNCHANGED exitCode
    /\ UNCHANGED <<cfgVars, mi, ci, stagedVars, conceptSheets, docs, outVars, viewerVars>>
    /\ UNCHANGED stages

\* The discovery call returns or throws (nothing catches the throw).
DiscoverReturn ==
    /\ pc = "discoverAwait"
    /\ \E result \in DiscoveryResults(iteration) :
         /\ ReturnCall("discover", result)
         /\ IF IsThrown(result)
            THEN /\ Abort
                 /\ UNCHANGED discoverVars
            ELSE LET m == DiscoverMerge(allConcepts, hasMoreConcepts, result)
                 IN  /\ allConcepts' = m.allConcepts
                     /\ hasMoreConcepts' = m.hasMoreConcepts
                     /\ iteration' = iteration + 1
                     /\ pc' = "discoverLoop"
                     /\ UNCHANGED exitCode
    /\ UNCHANGED <<cfgVars, mi, ci, stagedVars, conceptSheets, docs, outVars, viewerVars>>
    /\ UNCHANGED stages

\* discoverConcepts returns allConcepts; generateConceptSheets starts.
DiscoverConceptsReturn ==
    /\ pc = "discoverLoop"
    /\ ~(hasMoreConcepts /\ WithinIterations(iteration, MaxIterationsParam(opts)))
    /\ pc' = "clean"
    /\ UNCHANGED <<cfgVars, exitCode, callVars, mi, ci, stagedVars, flatVars, outVars,
                   viewerVars>>
    /\ StartStage("Sheets")

\* readdirSync(absOut).filter(file => file.endsWith('.md'))
MarkdownFiles(files) == {n \in DOMAIN files : n[2] = "md"}

\* The directory without the files of names.
Unlink(files, names) == [n \in (DOMAIN files) \ names |-> files[n]]

\* A clean step that empties the output directory.
CleanOutDirRemovesEverything ==
    /\ pc = "clean"
    /\ IF opts.clean /\ opts.outDir # ""
       THEN /\ docs' = <<>>
            /\ returned' = Returned("clean", [removed |-> Cardinality(DOMAIN docs)])
       ELSE UNCHANGED <<docs, returned>>
    /\ conceptSheets' = <<>>
    /\ ci' = 1
    /\ pc' = "sheetLoop"
    /\ UNCHANGED <<cfgVars, exitCode, inflight, request, calls, mi, stagedVars,
                   discoverVars, outVars, viewerVars>>
    /\ UNCHANGED stages

\* if (clean && outDir) try { unlink every .md file of the output directory }
\* catch { warn }: all of them are removed and their number is logged, or an
\* error of the file system ends the loop after some of them and is logged.
CleanOutDir ==
    /\ pc = "clean"
    /\ IF opts.clean /\ opts.outDir # ""
       THEN \E removed \in SUBSET MarkdownFiles(docs) :
               /\ docs' = Unlink(docs, removed)
               /\ returned' = Returned("clean",
                                  IF removed = MarkdownFiles(docs)
                                  THEN [removed |-> Cardinality(removed)]
                                  ELSE Thrown)
       ELSE UNCHANGED <<docs, returned>>
    /\ conceptSheets' = <<>>
    /\ ci' = 1
    /\ pc' = "sheetLoop"
    /\ UNCHANGED <<cfgVars, exitCode, inflight, request, calls, mi, stagedVars,
                   discoverVars, outVars, viewerVars>>
    /\ UNCHANGED stages

\* s.replace(/[^a-z0-9-_]/gi, "_").toLowerCase() + ".md"
DocName(sheet) == <<toLowerCase(ReplaceUnsafeCharsBy(sheet.metadata.name, "_")), "md">>

CurrentCandidate == allConcepts[ci]

\* A loop that throws on a candidate none of whose files resolve.
SheetSkipAborts ==
    /\ pc = "sheetLoop" /\ ci <= Len(allConcepts)
    /\ RelevantFiles(CurrentCandidate) = {}
    /\ Abort
    /\ UNCHANGED <<cfgVars, callVars, mi, ci, stagedVars, flatVars, outVars, viewerVars>>
    /\ UNCHANGED stages

\* A candidate none of whose files resolve: no sheet.
SheetSkip ==
    /\ pc = "sheetLoop" /\ ci <= Len(allConcepts)
    /\ RelevantFiles(CurrentCandidate) = {}
    /\ ci' = ci + 1
    /\ UNCHANGED <<cfgVars, pc, exitCode, callVars, mi, stagedVars, flatVars, outVars,
                   viewerVars>>
    /\ UNCHANGED stages

\* A candidate with relevant files: the concept sheet call is issued.
SheetCall ==
    /\ pc = "sheetLoop" /\ ci <= Len(allConcepts)
    /\ RelevantFiles(CurrentCandidate) # {}
    /\ IssueCall("sheets")
    /\ pc' = "sheetAwait"
    /\ UNCHANGED <<cfgVars, exitCode, mi, ci, stagedVars, flatVars, outVars, viewerVars>>
    /\ UNCHANGED stages

\* A loop that collects the sheets and leaves the documents to be written
\* after the loop.
SheetReturnDefersWrite ==
    /\ pc = "sheetAwait"
    /\ \E sheet \in SheetResults(CurrentCandidate) :
         /\ ReturnCall("sheets", sheet)
         /\ IF IsThrown(sheet)
            THEN UNCHANGED conceptSheets
            ELSE conceptSheets' = Append(conceptSheets, sheet)
    /\ ci' = ci + 1
    /\ pc' = "sheetLoop"
    /\ UNCHANGED <<cfgVars, exitCode, mi, stagedVars, discoverVars, docs, outVars,
                   viewerVars>>
    /\ UNCHANGED stages

\* A loop without the try/catch: a throw of the sheet call leaves
\* analyzeRepo.
SheetReturnRethrows ==
    /\ pc = "sheetAwait"
    /\ \E sheet \in SheetResults(CurrentCandidate) :
         /\ ReturnCall("sheets", sheet)
         /\ IF IsThrown(sheet)
            THEN /\ Abort
                 /\ UNCHANGED <<conceptSheets, docs, ci>>
            ELSE /\ conceptSheets' = Append(conceptSheets, sheet)
                 /\ docs' = Put(docs, DocName(sheet), sheet)
                 /\ ci' = ci + 1
                 /\ pc' = "sheetLoop"
                 /\ UNCHANGED exitCode
    /\ UNCHANGED <<cfgVars, mi, stagedVars, discoverVars, outVars, viewerVars>>
    /\ UNCHANGED stages

\* The sheet call returns or throws: the sheet is kept and, with an output
\* directory, written at once; a throw is logged.
SheetReturn ==
    /\ pc = "sheetAwait"
    /\ \E sheet \in SheetResults(CurrentCandidate) :
         /\ ReturnCall("sheets", sheet)
         /\ IF IsThrown(sheet)
            THEN UNCHANGED <<conceptSheets, docs>>
            ELSE /\ conceptSheets' = Append(conceptSheets, sheet)
                 /\ IF opts.outDir # ""
                    THEN docs' = Put(docs, DocName(sheet), sheet)
                    ELSE UNCHANGED docs
    /\ ci' = ci + 1
    /\ pc' = "sheetLoop"
    /\ UNCHANGED <<cfgVars, exitCode, mi, stagedVars, discoverVars, outVars, viewerVars>>
    /\ UNCHANGED stages

\* generateConceptSheets returns; rationalizeContexts builds its prompt and
\* issues its call.
RationalizeCall ==
    /\ pc = "sheetLoop" /\ ci > Len(allConcepts)
    /\ IssueCall("rationalize")
    /\ pc' = "rationalizeAwait"
    /\ UNCHANGED <<cfgVars, exitCode, mi, ci, stagedVars, flatVars, outVars, viewerVars>>
    /\ StartStage("Rationalization")

\* A map that keeps the first context entered for a name.
ContextIndexOfFirst(contexts, name) ==
    LET listing == {i \in 1..Len(contexts) :
                       \E j \in 1..Len(contexts[i].conceptNames) :
                           contexts[i].conceptNames[j] = name}
    IN  IF listing = {} THEN 0 ELSE CHOOSE i \in listing : \A k \in listing : i <= k

\* conceptToContext.get(name): the contexts are entered in order, so the last
\* context that lists the name wins; 0 when none lists it.
ContextIndexOf(contexts, name) ==
    LET listing == {i \in 1..Len(contexts) :
                       \E j \in 1..Len(contexts[i].conceptNames) :
                           contexts[i].conceptNames[j] = name}
    IN  IF listing = {} THEN 0 ELSE CHOOSE i \in listing : \A k \in listing : k <= i

\* An update that files every sheet the proposal does not list under
\* 'Unassigned'.
UpdateSheetUnassignsUnlisted(contexts, sheet) ==
    LET i == ContextIndexOf(contexts, sheet.metadata.name)
    IN  IF i # 0 /\ contexts[i].name # ""
        THEN [sheet EXCEPT !.metadata = Merge(@, [boundedContext |-> contexts[i].name])]
        ELSE [sheet EXCEPT !.metadata = Merge(@, [boundedContext |-> "Unassigned"])]

\* sheet => newContext ? {...sheet, metadata: {..., boundedContext}} : sheet
UpdateSheet(contexts, sheet) ==
    LET i == ContextIndexOf(contexts, sheet.metadata.name)
    IN  IF i # 0 /\ contexts[i].name # ""
        THEN [sheet EXCEPT !.metadata = Merge(@, [boundedContext |-> contexts[i].name])]
        ELSE sheet

\* The updated sheets collected in reverse.
UpdatedSheetsReversed(contexts, sheets) ==
    [k \in 1..Len(sheets) |-> UpdateSheet(contexts, sheets[Len(sheets) + 1 - k])]

\* conceptSheets.map(sheet => ...)
UpdatedSheets(contexts, sheets) ==
    [k \in 1..Len(sheets) |-> UpdateSheet(contexts, sheets[k])]

\* A return that assigns the new context to the sheets themselves.
RationalizeReturnUpdatesInPlace ==
    /\ pc = "rationalizeAwait"
    /\ \E rationalization \in RationalizationResults :
         /\ ReturnCall("rationalize", rationalization)
         /\ IF IsThrown(rationalization)
            THEN /\ Abort
                 /\ UNCHANGED <<outVars, conceptSheets>>
            ELSE /\ conceptSheets' = UpdatedSheets(rationalization.contexts, conceptSheets)
                 /\ outFile' = [concepts |-> conceptSheets']
                 /\ outWrites' = outWrites + 1
                 /\ pc' = "publish"
                 /\ UNCHANGED exitCode
    /\ UNCHANGED <<cfgVars, mi, ci, stagedVars, discoverVars, docs, viewerVars>>
    /\ IF pc' = "publish" THEN stages' = stages \o <<"Assembly", "Persistence">>
       ELSE UNCHANGED stages

\* The rationalization call returns or throws (nothing catches the throw); on
\* a value the model is assembled and concept-model.json is written.
RationalizeReturn ==
    /\ pc = "rationalizeAwait"
    /\ \E rationalization \in RationalizationResults :
         /\ ReturnCall("rationalize", rationalization)
         /\ IF IsThrown(rationalization)
            THEN /\ Abort
                 /\ UNCHANGED outVars
            ELSE /\ outFile' = [concepts |-> UpdatedSheets(rationalization.contexts,
                                                           conceptSheets)]
                 /\ outWrites' = outWrites + 1
                 /\ pc' = "publish"
                 /\ UNCHANGED exitCode
    /\ UNCHANGED <<cfgVars, mi, ci, stagedVars, flatVars, viewerVars>>
    /\ IF pc' = "publish" THEN stages' = stages \o <<"Assembly", "Persistence">>
       ELSE UNCHANGED stages

InitialDocs == [n \in OldDocs |-> [old |-> TRUE]]

InitFlat ==
    /\ variant = "flat"
    /\ pc = "start"
    /\ opts \in FlatRuns
    /\ inflight = 0
    /\ request = NoRequest
    /\ stages = <<>>
    /\ returned = NothingReturned
    /\ calls = NoCalls
    /\ exitCode = "running"
    /\ InitStagedVars
    /\ InitDisk
    /\ ViewerClosed
    /\ InitFlatVars
    /\ docs = InitialDocs

(***************************************************************************)
(* The specifications.                                                     *)
(***************************************************************************)
NextStaged ==
    \/ StagedStart
    \/ DiscoverProjectStructureReturn
    \/ EnrichModelBegin
    \/ EnrichSkip
    \/ EnrichCall
    \/ EnrichReturn
    \/ EnrichModelEnd
    \/ EnrichProjectModelsReturn
    \/ ViewCall
    \/ ViewReturn
    \/ GenerateViewsReturn
    \/ WriteProjectFile

NextFlat ==
    \/ FlatStart
    \/ GenerateProjectOverviewReturn
    \/ DiscoverCall
    \/ DiscoverReturn
    \/ DiscoverConceptsReturn
    \/ CleanOutDir
    \/ SheetSkip
    \/ SheetCall
    \/ SheetReturn
    \/ RationalizeCall
    \/ RationalizeReturn

NextPublish ==
    \/ PublishStart
    \/ PublishProjectFile
    \/ PublishRegistry

Init == InitStaged \/ InitFlat
Next == NextStaged \/ NextFlat \/ NextPublish
Spec == Init /\ [][Next]_vars

(***************************************************************************)
(* A sequence of publishes into one viewer directory: each run of the tool *)
(* is taken at the point where analyzeRepo has its result and publishes    *)
(* it.                                                                     *)
(***************************************************************************)
\* registry.json before the first run: no file (or one that does not parse,
\* which the code reads as no projects), or entries of earlier publishes.
OldEntry == ProjectEntry(<<"o", "l", "d">>, <<"O", "l", "d">>)
StaleEntry == ProjectEntry(<<"p", "a">>, <<"s", "t", "a", "l", "e">>)
Registries ==
    { <<>>, <<OldEntry>>, <<StaleEntry>>, <<StaleEntry, OldEntry>>,
      <<OldEntry, StaleEntry>> }

\* What a run publishes: a project of the staged variant (two of the ids
\* differ by case only), or the model of the flat variant under the
\* project name.
PublishedProjects ==
    { [id |-> id, name |-> id, models |-> <<>>] :
         id \in { <<"P", "a">>, <<"p", "A">>, <<"m", "y", " ", "a", "p">> } }

PublishRuns ==
    { [variant |-> "staged", opts |-> StagedDefaults, finalProject |-> project,
       outFile |-> project] : project \in PublishedProjects }
    \cup
    { [variant |-> "flat", opts |-> o, finalProject |-> NoProject,
       outFile |-> [concepts |-> <<>>]] :
         o \in { FlatDefaults, [FlatDefaults EXCEPT !.projectName = CustomName] } }

InitPublish ==
    /\ \E run \in PublishRuns :
         /\ variant = run.variant
         /\ opts = run.opts
         /\ finalProject = run.finalProject
         /\ outFile = run.outFile
    /\ pc = "publish"
    /\ inflight = 0
    /\ request = NoRequest
    /\ stages = <<>>
    /\ returned = NothingReturned
    /\ calls = NoCalls
    /\ exitCode = "running"
    /\ discoveredProject = NoProject
    /\ modelsToProcess = <<>>
    /\ mi = 1
    /\ ci = 1
    /\ enrichedModels = <<>>
    /\ enrichedConcepts = <<>>
    /\ allRelationships = <<>>
    /\ allRules = <<>>
    /\ allLifecycles = <<>>
    /\ modelsWithViews = <<>>
    /\ outWrites = 1
    /\ viewerFiles = <<>>
    /\ registry \in Registries
    /\ ViewerClosed
    /\ InitFlatVars
    /\ docs = <<>>

\* The tool is run again, on the same viewer directory.
RunAgain ==
    /\ pc = "done"
    /\ \E run \in PublishRuns :
         /\ variant' = run.variant
         /\ opts' = run.opts
         /\ finalProject' = run.finalProject
         /\ outFile' = run.outFile
    /\ pc' = "publish"
    /\ exitCode' = "running"
    /\ stages' = <<>>
    /\ UNCHANGED <<callVars, mi, ci, discoveredProject, enrichVars, modelsWithViews,
                   flatVars, outWrites, viewerVars>>

NextPublishRuns == NextPublish \/ RunAgain
SpecPublish == InitPublish /\ [][NextPublishRuns]_vars

\* The flat-document variant alone, every step of the run eventually taken
\* (the program is one thread that runs on, and every oracle call returns or
\* throws).
NextFlatRun == NextFlat \/ NextPublish
FairFlat == InitFlat /\ [][NextFlatRun]_vars /\ WF_vars(NextFlatRun)

(***************************************************************************)
(* callLLM: one call, from the request to the value it returns or the      *)
(* error it throws.                                                        *)
(***************************************************************************)
\* The value of a digit character.
DigitValue(ch) ==
    CASE ch = "1" -> 1 [] ch = "2" -> 2 [] ch = "3" -> 3 [] ch = "4" -> 4
      [] ch = "5" -> 5 [] OTHER -> 6

RECURSIVE SkipSpace(_)
SkipSpace(s) == IF s # <<>> /\ IsSpace(Head(s)) THEN SkipSpace(Tail(s)) ELSE s

JsNumber(n) == [kind |-> "number", value |-> n]
JsString(chars) == [kind |-> "string", chars |-> chars]

\* JSON.parse, for texts of digits, brackets, braces, commas and white space:
\* a value is a number, an array of values or the empty object.  Each parser
\* returns the value and the rest of the text, or ok = FALSE.
RECURSIVE ParseNumber(_, _)
ParseNumber(s, n) ==
    IF s # <<>> /\ Head(s) \in Digits
    THEN ParseNumber(Tail(s), 10 * n + DigitValue(Head(s)))
    ELSE [ok |-> TRUE, value |-> JsNumber(n), rest |-> s]

RECURSIVE ParseValue(_)
RECURSIVE ParseElements(_, _)
ParseValue(s) ==
    LET t == SkipSpace(s)
    IN  IF t = <<>> THEN [ok |-> FALSE]
        ELSE IF Head(t) \in Digits THEN ParseNumber(t, 0)
        ELSE IF Head(t) = "{"
             THEN LET u == SkipSpace(Tail(t))
                  IN  IF u # <<>> /\ Head(u) = "}"
                      THEN [ok |-> TRUE, value |-> JsObject, rest |-> Tail(u)]
                      ELSE [ok |-> FALSE]
        ELSE IF Head(t) = "["
             THEN LET u == SkipSpace(Tail(t))
                  IN  IF u # <<>> /\ Head(u) = "]"
                      THEN [ok |-> TRUE, value |-> JsArray(<<>>), rest |-> Tail(u)]
                      ELSE ParseElements(u, <<>>)
        ELSE [ok |-> FALSE]

\* The elements of an array after '[' or ',': a value, then ',' or ']'.
ParseElements(s, items) ==
    LET v == ParseValue(s)
    IN  IF ~v.ok THEN [ok |-> FALSE]
        ELSE LET u == SkipSpace(v.rest)
             IN  IF u = <<>> THEN [ok |-> FALSE]
                 ELSE IF Head(u) = "]"
                      THEN [ok |-> TRUE, value |-> JsArray(Append(items, v.value)),
                            rest |-> Tail(u)]
                 ELSE IF Head(u) = ","
                      THEN ParseElements(Tail(u), Append(items, v.value))
                 ELSE [ok |-> FALSE]

\* JSON.parse(content): the whole text is one value.
ParseJson(s) ==
    LET v == ParseValue(s)
    IN  IF v.ok /\ SkipSpace(v.rest) = <<>> THEN [ok |-> TRUE, value |-> v.value]
        ELSE [ok |-> FALSE]

\* The contents a chat completion can carry.
Contents ==
    { <<>>,
      <<"h", "i">>,
      <<"{", "}">>,
      <<"{", " ", "}">>,
      <<"[", "]">>,
      <<"[", "1", ",", "2", "]">>,
      <<"[", "1", ",">>,
      <<"[", "1", ",", "]">>,
      <<" ", "1", "2", " ">>,
      <<"1", " ", "2">>,
      <<"[", "[", "3", "]", ",", "{", "}", "]">> }

\* A response with an OK status whose body is a chat completion.
OkWith(json) == [ok |-> TRUE, json |-> json]
Completion(content) == OkWith([choices |-> <<[message |-> [content |-> content]]>>])

\* What fetch can settle with: a rejection, a status that is not OK, an OK
\* status with a body that is not JSON, and OK statuses with bodies that
\* carry no content or one of the contents.
NoContentResponses ==
    { OkWith([id |-> "x"]),
      OkWith([choices |-> <<>>]),
      OkWith([choices |-> <<[index |-> 0]>>]),
      OkWith([choices |-> <<[message |-> [role |-> "assistant"]]>>]) }

TransportResponses ==
    { [rejected |-> TRUE], [ok |-> FALSE, status |-> 500], [ok |-> TRUE] }
    \cup NoContentResponses
    \cup {Completion(c) : c \in Contents}

\* json.choices?.[0]?.message?.content
ContentOf(json) ==
    IF /\ Has(json, "choices") /\ Len(json.choices) > 0
       /\ Has(json.choices[1], "message")
       /\ Has(json.choices[1].message, "content")
    THEN [content |-> json.choices[1].message.content]
    ELSE Undefined

\* options?.responseFormat
ResponseFormat(options) ==
    IF Has(options, "responseFormat") THEN options.responseFormat ELSE "undefined"

\* A callLLM without the check of the content.
CallLLMResultKeepsEmptyContent(resp, options) ==
    IF Has(resp, "rejected") \/ ~resp.ok \/ ~Has(resp, "json") THEN Thrown
    ELSE LET c == ContentOf(resp.json)
             text == IF Has(c, "content") THEN c.content ELSE <<>>
         IN  IF ResponseFormat(options) = "json_object"
             THEN LET v == ParseJson(text) IN IF v.ok THEN v.value ELSE Thrown
             ELSE JsString(text)

\* What callLLM does with the settled fetch: the value it returns, or Thrown.
CallLLMResult(resp, options) ==
    IF Has(resp, "rejected") \/ ~resp.ok \/ ~Has(resp, "json") THEN Thrown
    ELSE LET c == ContentOf(resp.json)
         IN  IF ~Has(c, "content") \/ c.content = <<>> THEN Thrown
             ELSE IF ResponseFormat(options) \in {"undefined", "text"}
                  THEN JsString(c.content)
             ELSE IF ResponseFormat(options) = "json_object"
                  THEN LET v == ParseJson(c.content) IN IF v.ok THEN v.value ELSE Thrown
             ELSE JsString(c.content)

\* The options of a call and env.baseUrl.
CallLlmOptions ==
    { Undefined, [note |-> "no format"], [responseFormat |-> "text"],
      [responseFormat |-> "json_object"] }

CallLLMRuns == [options : CallLlmOptions, baseUrl : {"undefined", "http://local/v1"}]

InitCallLLM ==
    /\ variant = "callLLM"
    /\ pc = "start"
    /\ opts \in CallLLMRuns
    /\ inflight = 0
    /\ request = NoRequest
    /\ stages = <<>>
    /\ returned = NothingReturned
    /\ calls = NoCalls
    /\ exitCode = "running"
    /\ InitStagedVars
    /\ InitDisk
    /\ ViewerClosed
    /\ InitFlatVars
    /\ docs = <<>>

\* The body is built and fetch is called.
CallLLMFetch ==
    /\ variant = "callLLM" /\ pc = "start"
    /\ request' = [stage |-> "callLLM",
                   url |-> IF opts.baseUrl = "undefined" THEN "https://api.openai.com/v1"
                           ELSE opts.baseUrl,
                   response_format |-> IF ResponseFormat(opts.options) = "json_object"
                                       THEN "json_object" ELSE "undefined"]
    /\ inflight' = 1
    /\ pc' = "fetching"
    /\ UNCHANGED <<cfgVars, stages, exitCode, returned, calls, mi, ci, stagedVars, flatVars,
                   outVars, viewerVars>>

\* fetch settles.
CallLLMFetchSettles ==
    /\ variant = "callLLM" /\ pc = "fetching"
    /\ \E resp \in TransportResponses : returned' = Returned("fetch", resp)
    /\ inflight' = 0
    /\ pc' = "fetched"
    /\ UNCHANGED <<cfgVars, stages, exitCode, request, calls, mi, ci, stagedVars, flatVars,
                   outVars, viewerVars>>

\* callLLM returns or throws.
CallLLMReturn ==
    /\ variant = "callLLM" /\ pc = "fetched"
    /\ returned' = [stage |-> "callLLM", response |-> returned.value,
                    value |-> CallLLMResult(returned.value, opts.options)]
    /\ request' = NoRequest
    /\ pc' = "done"
    /\ UNCHANGED <<cfgVars, stages, exitCode, inflight, calls, mi, ci, stagedVars,
                   flatVars, outVars, viewerVars>>

NextCallLLM == CallLLMFetch \/ CallLLMFetchSettles \/ CallLLMReturn
SpecCallLLM == InitCallLLM /\ [][NextCallLLM]_vars

(***************************************************************************)
(* The viewer: buildDiagramGraph(view, model).                             *)
(***************************************************************************)
CARD_W == 220
CARD_H == 120
PADDING_X == 24
PADDING_Y == 60
GAP_Y == 50
GROUP_SEPARATION == 60
GROUP_WIDTH == CARD_W + PADDING_X * 2

\* new Map(items.map(x => [x.id, x])).get(id): the last item of that id.
MapGet(items, id) ==
    LET at == {k \in 1..Len(items) : items[k].id = id}
    IN  IF at = {} THEN Undefined ELSE items[CHOOSE k \in at : \A j \in at : j <= k]

\* ids.includes(id)
Includes(ids, id) == \E k \in 1..Len(ids) : ids[k] = id

\* The models and the views the viewer is given: relationships whose ends
\* are concepts of the model and one whose target is not, views that name
\* concepts and relationships of the model and others, with and without
\* layout groups.
RelGhost == [id |-> "rel-g", from |-> "order", to |-> "ghost", phrase |-> "haunts"]

DiagramModels ==
    { [concepts |-> <<[id |-> "order", label |-> "Order"], [id |-> "user", label |-> "User"]>>,
       relationships |-> <<Rel0, RelGhost>>],
      [concepts |-> <<[id |-> "order", label |-> "Order"]>>,
       relationships |-> <<Rel0>>] }

DiagramViews ==
    LET ids == {c \in SeqsUpTo({"order", "user", "ghost"}, 3) :
                   \A i, j \in 1..Len(c) : i # j => c[i] # c[j]}
        rels == {<<>>, <<"rel-0">>, <<"rel-g", "rel-0">>, <<"rel-x">>}
        base == {[id |-> "v", conceptIds |-> c, relationshipIds |-> r] :
                    c \in ids, r \in rels}
        layouts == { [groups |-> <<[id |-> "g1", conceptIds |-> <<"order", "ghost">>]>>],
                     [groups |-> <<[id |-> "g1", title |-> "Empty"],
                                   [id |-> "g2", conceptIds |-> <<"user", "order">>]>>] }
    IN  base \cup {Merge(v, [layout |-> l]) : v \in base, l \in layouts}

\* The concept nodes of a lane: one per id that is a concept of the model,
\* at the place of its index in the lane.
ConceptNodes(ids, parentId, model) ==
    LET placed == [k \in 1..Len(ids) |->
                     LET concept == MapGet(model.concepts, ids[k])
                     IN  IF concept = Undefined THEN Undefined
                         ELSE [id |-> concept.id, type |-> "concept",
                               parentId |-> parentId,
                               position |-> [x |-> PADDING_X,
                                             y |-> PADDING_Y + (k - 1) * (CARD_H + GAP_Y)],
                               label |-> concept.label]]
    IN  SelectSeq(placed, LAMBDA n : ~Has(n, "undefined"))

\* PADDING_Y + PADDING_X + (n > 0 ? n * (CARD_H + GAP_Y) - GAP_Y : CARD_H)
LaneHeight(n) ==
    PADDING_Y + PADDING_X + (IF n > 0 THEN n * (CARD_H + GAP_Y) - GAP_Y ELSE CARD_H)

RECURSIVE Flatten(_)
Flatten(seqs) == IF seqs = <<>> THEN <<>> ELSE Head(seqs) \o Flatten(Tail(seqs))

\* buildDiagramGraph: the group nodes, the concept nodes of each group, the
\* lane of the ungrouped concepts, and an edge for every relationship of the
\* view that the model has and whose ends the view lists.
BuildDiagramGraph(view, model) ==
    LET groups == IF Has(view, "layout") /\ Has(view.layout, "groups")
                  THEN view.layout.groups ELSE <<>>
        idsOf(g) == IF Has(g, "conceptIds") THEN g.conceptIds ELSE <<>>
        grouped(id) == \E k \in 1..Len(groups) : Includes(idsOf(groups[k]), id)
        ungroupedConceptIds == SelectSeq(view.conceptIds, LAMBDA id : ~grouped(id))
        layoutGroups ==
            [k \in 1..Len(groups) |->
                LET conceptIds == SelectSeq(idsOf(groups[k]),
                                            LAMBDA id : Includes(view.conceptIds, id))
                IN  [id |-> groups[k].id,
                     x |-> (k - 1) * (GROUP_WIDTH + GROUP_SEPARATION),
                     width |-> GROUP_WIDTH,
                     height |-> LaneHeight(Len(conceptIds)),
                     conceptIds |-> conceptIds]]
        groupNodes ==
            [k \in 1..Len(layoutGroups) |->
                [id |-> <<"group", layoutGroups[k].id>>, type |-> "group",
                 position |-> [x |-> layoutGroups[k].x, y |-> 0],
                 height |-> layoutGroups[k].height]]
        groupedNodes ==
            Flatten([k \in 1..Len(layoutGroups) |->
                        ConceptNodes(layoutGroups[k].conceptIds,
                                     <<"group", layoutGroups[k].id>>, model)])
        lastGroupX == IF Len(layoutGroups) > 0
                      THEN layoutGroups[Len(layoutGroups)].x
                           + layoutGroups[Len(layoutGroups)].width
                      ELSE 0
        otherNodes ==
            IF Len(ungroupedConceptIds) > 0
            THEN <<[id |-> <<"group", "ungrouped">>, type |-> "group",
                    position |-> [x |-> lastGroupX + GROUP_SEPARATION, y |-> 0],
                    height |-> LaneHeight(Len(ungroupedConceptIds))]>>
                 \o ConceptNodes(ungroupedConceptIds, <<"group", "ungrouped">>, model)
            ELSE <<>>
        drawn == SelectSeq(view.relationshipIds,
                           LAMBDA relId :
                              LET rel == MapGet(model.relationships, relId)
                              IN  /\ rel # Undefined
                                  /\ Includes(view.conceptIds, rel.from)
                                  /\ Includes(view.conceptIds, rel.to))
        edges == [k \in 1..Len(drawn) |->
                     LET rel == MapGet(model.relationships, drawn[k])
                     IN  [id |-> rel.id, source |-> rel.from, target |-> rel.to,
                          phrase |-> rel.phrase]]
    IN  [nodes |-> groupNodes \o groupedNodes \o otherNodes, edges |-> edges]

InitDiagram ==
    /\ variant = "viewer"
    /\ pc = "start"
    /\ opts \in [view : DiagramViews, model : DiagramModels]
    /\ inflight = 0
    /\ request = NoRequest
    /\ stages = <<>>
    /\ returned = NothingReturned
    /\ calls = NoCalls
    /\ exitCode = "running"
    /\ InitStagedVars
    /\ InitDisk
    /\ ViewerClosed
    /\ InitFlatVars
    /\ docs = <<>>

\* The diagram of a view is built.
BuildDiagram ==
    /\ variant = "viewer" /\ pc = "start"
    /\ returned' = Returned("diagram", BuildDiagramGraph(opts.view, opts.model))
    /\ pc' = "done"
    /\ UNCHANGED <<cfgVars, stages, exitCode, inflight, request, calls, mi, ci, stagedVars,
                   flatVars, outVars, viewerVars>>

SpecDiagram == InitDiagram /\ [][BuildDiagram]_vars

(***************************************************************************)
(* The story viewers: StoryView with its hook useStoryReveal, and          *)
(* StoryDiagramView.  An event handler sets state, the component renders   *)
(* with the new state, and the effects whose dependencies changed run      *)
(* after the render is committed; a timeout callback runs on its own.      *)
(***************************************************************************)
\* The model the stories are told about, and the stories the viewer can
\* show: of three steps, of one step, of two steps with a step that adds no
\* concept and lists a relationship to a concept that no step of the story
\* has, and of two steps with a step that lists a relationship twice.
StoryModel ==
    [concepts |-> <<[id |-> "a"], [id |-> "b"], [id |-> "c"], [id |-> "d"]>>,
     relationships |-> << [id |-> "r1", from |-> "a", to |-> "b"],
                          [id |-> "r2", from |-> "b", to |-> "c"],
                          [id |-> "r3", from |-> "a", to |-> "d"] >>]

StoryStep(conceptIds, relationshipIds) ==
    [conceptIds |-> conceptIds, relationshipIds |-> relationshipIds]

StoryViews ==
    { [id |-> "s1", steps |-> << StoryStep(<<"a">>, <<>>),
                                 StoryStep(<<"a", "b">>, <<"r1">>),
                                 StoryStep(<<"c">>, <<"r2", "r1">>) >>],
      [id |-> "s2", steps |-> << StoryStep(<<"a", "b">>, <<"r1">>) >>],
      [id |-> "s3", steps |-> << StoryStep(<<"a", "b">>, <<>>),
                                 StoryStep(<<"b">>, <<"r1", "r3">>) >>],
      [id |-> "s4", steps |-> << StoryStep(<<"a">>, <<>>),
                                 StoryStep(<<"b", "c">>, <<"r1", "r2", "r1">>) >>] }

StoryComponents == {"StoryView", "StoryDiagramView"}

totalSteps == Len(storyView.steps)
canGoPrevious == currentStepIndex > 0
canGoNext == currentStepIndex < totalSteps - 1

\* The step index the reveal effect works with: StoryView passes
\* stepThroughMode ? currentStepIndex : totalSteps - 1 to its hook,
\* StoryDiagramView uses its currentStepIndex.
RevealStepIndex ==
    IF opts.component = "StoryView" /\ ~stepThroughMode
    THEN totalSteps - 1
    ELSE currentStepIndex

\* steps[index]: undefined outside the array.
StepAt(steps, index) ==
    IF index \in 0..(Len(steps) - 1) THEN steps[index + 1] ELSE Undefined

\* steps.slice(0, end), for end >= 0.
Slice(steps, end) == SubSeq(steps, 1, IF end < Len(steps) THEN end ELSE Len(steps))

\* [...new Set(ids)]: the ids in the order of their first occurrence.
Distinct(ids) ==
    LET kept[k \in 0..Len(ids)] ==
            IF k = 0 THEN <<>>
            ELSE IF Includes(kept[k - 1], ids[k]) THEN kept[k - 1]
                 ELSE Append(kept[k - 1], ids[k])
    IN  kept[Len(ids)]

\* items.find(r => r.id === id)
Find(items, id) ==
    LET at == {k \in 1..Len(items) : items[k].id = id}
    IN  IF at = {} THEN Undefined ELSE items[CHOOSE k \in at : \A j \in at : k <= j]

\* revealQueue.filter(...): a relationship is kept at its first occurrence,
\* a concept at every occurrence.
UniqueQueue(revealQueue) ==
    LET kept[k \in 0..Len(revealQueue)] ==
            IF k = 0 THEN <<>>
            ELSE IF /\ revealQueue[k].type = "relationship"
                    /\ Includes(kept[k - 1], revealQueue[k])
                 THEN kept[k - 1]
                 ELSE Append(kept[k - 1], revealQueue[k])
    IN  kept[Len(revealQueue)]

\* The body of the reveal effect for a step index: the ids it sets the
\* revealed ids to, the timeouts it sets, in the order of their delays, and
\* whether it throws a TypeError because currentStep is undefined.
RevealEffect(story, model, index) ==
    LET currentStep == StepAt(story.steps, index)
        previousSteps == Slice(story.steps, index)
        previousConceptIds ==
            Distinct(Flatten([k \in 1..Len(previousSteps) |-> previousSteps[k].conceptIds]))
        previousRelationshipIds ==
            Distinct(Flatten([k \in 1..Len(previousSteps) |->
                                 previousSteps[k].relationshipIds]))
    IN  IF currentStep = Undefined
        THEN [thrown |-> TRUE, conceptIds |-> previousConceptIds,
              relationshipIds |-> previousRelationshipIds, queue |-> <<>>]
        ELSE IF index = 0
        THEN [thrown |-> FALSE, conceptIds |-> currentStep.conceptIds,
              relationshipIds |-> currentStep.relationshipIds, queue |-> <<>>]
        ELSE
        LET newConceptIds ==
                SelectSeq(currentStep.conceptIds,
                          LAMBDA id : ~Includes(previousConceptIds, id))
            newRelationshipIds ==
                SelectSeq(currentStep.relationshipIds,
                          LAMBDA id : ~Includes(previousRelationshipIds, id))
            Rel(relId) == Find(model.relationships, relId)
            Item(type, id) == [type |-> type, id |-> id]
            relationshipsBetweenExisting ==
                SelectSeq(newRelationshipIds,
                          LAMBDA relId :
                             /\ Rel(relId) # Undefined
                             /\ Includes(previousConceptIds, Rel(relId).from)
                             /\ Includes(previousConceptIds, Rel(relId).to))
            relatedRelationships(conceptId) ==
                SelectSeq(newRelationshipIds,
                          LAMBDA relId :
                             /\ Rel(relId) # Undefined
                             /\ (Rel(relId).from = conceptId \/ Rel(relId).to = conceptId))
            Items(type, ids) == [k \in 1..Len(ids) |-> Item(type, ids[k])]
            revealQueue ==
                Items("relationship", relationshipsBetweenExisting)
                \o Flatten([k \in 1..Len(newConceptIds) |->
                              <<Item("concept", newConceptIds[k])>>
                              \o Items("relationship",
                                       relatedRelationships(newConceptIds[k]))])
        IN  [thrown |-> FALSE, conceptIds |-> previousConceptIds,
             relationshipIds |-> previousRelationshipIds,
             queue |-> UniqueQueue(revealQueue)]

toolVars == <<cfgVars, stages, exitCode, callVars, mi, ci, stagedVars, flatVars, outVars,
              viewerFiles, registry>>

\* A story viewer is mounted on a story: the state is the initial state of
\* its useState calls and the first render is committed.
InitStory ==
    /\ variant = "story"
    /\ pc = "committed"
    /\ opts \in [component : StoryComponents, model : {StoryModel}]
    /\ inflight = 0
    /\ request = NoRequest
    /\ stages = <<>>
    /\ returned = NothingReturned
    /\ calls = NoCalls
    /\ exitCode = "running"
    /\ InitStagedVars
    /\ InitDisk
    /\ InitFlatVars
    /\ docs = <<>>
    /\ storyView \in StoryViews
    /\ stepThroughMode = FALSE
    /\ currentStepIndex = 0
    /\ revealedConceptIds = <<>>
    /\ revealedRelationshipIds = <<>>
    /\ timers = <<>>
    /\ effect = NoEffect

\* The Previous button (shown by StoryView in step-through mode only, and
\* disabled unless canGoPrevious): setCurrentStepIndex(Math.max(0, prev - 1)).
Previous ==
    /\ variant = "story" /\ pc = "idle"
    /\ opts.component = "StoryView" => stepThroughMode
    /\ canGoPrevious
    /\ currentStepIndex' = (IF currentStepIndex - 1 > 0 THEN currentStepIndex - 1 ELSE 0)
    /\ pc' = "committed"
    /\ UNCHANGED <<toolVars, storyView, stepThroughMode, revealedConceptIds,
                   revealedRelationshipIds, timers, effect>>

\* The Next button: setCurrentStepIndex(Math.min(totalSteps - 1, prev + 1)).
StepNext ==
    /\ variant = "story" /\ pc = "idle"
    /\ opts.component = "StoryView" => stepThroughMode
    /\ canGoNext
    /\ currentStepIndex' = (IF currentStepIndex + 1 < totalSteps - 1
                            THEN currentStepIndex + 1 ELSE totalSteps - 1)
    /\ pc' = "committed"
    /\ UNCHANGED <<toolVars, storyView, stepThroughMode, revealedConceptIds,
                   revealedRelationshipIds, timers, effect>>

\* StoryView's Step Through button: the mode is toggled, and the step index
\* is reset when the mode is entered.
handleToggleStepThrough ==
    /\ variant = "story" /\ pc = "idle"
    /\ opts.component = "StoryView"
    /\ stepThroughMode' = ~stepThroughMode
    /\ currentStepIndex' = (IF ~stepThroughMode THEN 0 ELSE currentStepIndex)
    /\ pc' = "committed"
    /\ UNCHANGED <<toolVars, storyView, revealedConceptIds, revealedRelationshipIds,
                   timers, effect>>

\* The route changes to another story of the model: the mounted component
\* renders with the new storyView prop and the state it has.  The render of
\* StoryDiagramView reads currentStep.title and throws when there is no such
\* step; StoryView reads currentStep?.title.  A throw unmounts the viewer,
\* which clears its timeouts.
SwitchStory ==
    /\ variant = "story" /\ pc = "idle"
    /\ \E story \in StoryViews \ {storyView} : storyView' = story
    /\ IF /\ opts.component = "StoryDiagramView"
          /\ StepAt(storyView'.steps, currentStepIndex) = Undefined
       THEN pc' = "crashed" /\ timers' = <<>>
       ELSE pc' = "committed" /\ UNCHANGED timers
    /\ UNCHANGED <<toolVars, stepThroughMode, currentStepIndex, revealedConceptIds,
                   revealedRelationshipIds, effect>>

\* A timeout of the reveal effect fires (they fire in the order of their
\* delays) and appends its item to the revealed ids.
TimerFires ==
    /\ variant = "story" /\ pc \in {"idle", "committed"}
    /\ timers # <<>>
    /\ IF Head(timers).type = "concept"
       THEN /\ revealedConceptIds' = Append(revealedConceptIds, Head(timers).id)
            /\ UNCHANGED revealedRelationshipIds
       ELSE /\ revealedRelationshipIds' = Append(revealedRelationshipIds, Head(timers).id)
            /\ UNCHANGED revealedConceptIds
    /\ timers' = Tail(timers)
    /\ UNCHANGED <<toolVars, pc, storyView, stepThroughMode, currentStepIndex, effect>>

\* The reveal effect reruns without clearing the timeouts of its last run.
RunEffectsKeepsTimers ==
    /\ variant = "story" /\ pc = "committed"
    /\ LET index == RevealStepIndex
           storyChanged == effect = NoEffect \/ effect.storyView # storyView.id
           revealChanged == storyChanged \/ effect.currentStepIndex # index
           reset == opts.component = "StoryView" /\ storyChanged
           reveal == RevealEffect(storyView, opts.model, index)
       IN  /\ stepThroughMode' = (IF reset THEN FALSE ELSE stepThroughMode)
           /\ currentStepIndex' = (IF reset THEN 0 ELSE currentStepIndex)
           /\ IF revealChanged
              THEN /\ revealedConceptIds' = reveal.conceptIds
                   /\ revealedRelationshipIds' = reveal.relationshipIds
                   /\ timers' = timers \o reveal.queue
              ELSE UNCHANGED <<revealedConceptIds, revealedRelationshipIds, timers>>
           /\ effect' = [storyView |-> storyView.id, currentStepIndex |-> index]
           /\ pc' = IF revealChanged /\ reveal.thrown THEN "crashed"
                    ELSE IF reset /\ (stepThroughMode \/ currentStepIndex # 0)
                         THEN "committed" ELSE "idle"
    /\ UNCHANGED <<toolVars, storyView>>

\* The effects of the committed render run: the cleanup of the reveal effect
\* when its dependencies (the step index, storyView.steps) changed, StoryView's
\* reset when storyView.id changed, and then the body of the reveal effect
\* with the step index of that render.  The reset's state takes effect in
\* the next render; an effect that throws unmounts the viewer.
RunEffects ==
    /\ variant = "story" /\ pc = "committed"
    /\ LET index == RevealStepIndex
           storyChanged == effect = NoEffect \/ effect.storyView # storyView.id
           revealChanged == storyChanged \/ effect.currentStepIndex # index
           reset == opts.component = "StoryView" /\ storyChanged
           reveal == RevealEffect(storyView, opts.model, index)
       IN  /\ stepThroughMode' = (IF reset THEN FALSE ELSE stepThroughMode)
           /\ currentStepIndex' = (IF reset THEN 0 ELSE currentStepIndex)
           /\ IF revealChanged
              THEN /\ revealedConceptIds' = reveal.conceptIds
                   /\ revealedRelationshipIds' = reveal.relationshipIds
                   /\ timers' = reveal.queue
              ELSE UNCHANGED <<revealedConceptIds, revealedRelationshipIds, timers>>
           /\ effect' = [storyView |-> storyView.id, currentStepIndex |-> index]
           /\ pc' = IF revealChanged /\ reveal.thrown THEN "crashed"
                    ELSE IF reset /\ (stepThroughMode \/ currentStepIndex # 0)
                         THEN "committed" ELSE "idle"
    /\ UNCHANGED <<toolVars, storyView>>

NextStory ==
    \/ Previous
    \/ StepNext
    \/ handleToggleStepThrough
    \/ SwitchStory
    \/ TimerFires
    \/ RunEffects

SpecStory == InitStory /\ [][NextStory]_vars

(***************************************************************************)
(* The claims.                                                             *)
(***************************************************************************)
\* record equals source but for the field references
SameButReferences(record, source) ==
    /\ DOMAIN record = (DOMAIN source) \ {"references"}
    /\ \A f \in DOMAIN record : record[f] = source[f]

Resolves(concept) == concept.references \cap RepoFiles # {}

EnrichReturned == pc = "enrichAwait" /\ pc' = "enrichConcept"

\* C1: when the enrichment call for a concept throws, the concept is emitted
\* unchanged but for its references, the relationship, rule and lifecycle
\* accumulators are left as they were, and the loop goes on with the next
\* concept of the model; a model is closed only after its last concept.
C1_EnrichFailureIsolated ==
    [][ /\ (EnrichReturned /\ IsThrown(returned'.value)) =>
              /\ Len(enrichedConcepts') = Len(enrichedConcepts) + 1
              /\ SubSeq(enrichedConcepts', 1, Len(enrichedConcepts)) = enrichedConcepts
              /\ SameButReferences(enrichedConcepts'[Len(enrichedConcepts')],
                                   modelsToProcess[mi].concepts[ci])
              /\ allRelationships' = allRelationships
              /\ allRules' = allRules
              /\ allLifecycles' = allLifecycles
              /\ mi' = mi /\ ci' = ci + 1
              /\ exitCode' = exitCode
        /\ (pc = "enrichConcept" /\ pc' = "enrichModel") =>
              ci = Len(modelsToProcess[mi].concepts) + 1
      ]_vars

\* The first concept's call threw, the second concept of the model was
\* enriched after it.
C1_Witness ==
    /\ pc = "enrichConcept" /\ mi = 1 /\ calls.enrich = 2
    /\ Len(enrichedConcepts) = 2
    /\ Resolves(modelsToProcess[1].concepts[1])
    /\ SameButReferences(enrichedConcepts[1], modelsToProcess[1].concepts[1])
    /\ Has(enrichedConcepts[2], "aliases")

DiscoveryThrew == returned.stage = "discover" /\ IsThrown(returned.value)

\* C2: when a Discovery call throws, analyzeRepo throws: the process exits
\* with 1, the failed call was the only one of its iteration, no enrichment,
\* view, sheet or rationalization call is ever issued, and neither the
\* artifact, nor a concept document, nor a viewer file, nor the registry is
\* written.
C2_DiscoveryFailureAborts ==
    /\ [](DiscoveryThrew =>
            /\ pc = "aborted" /\ exitCode = "exit1" /\ inflight = 0
            /\ calls.discover = (IF variant = "staged" THEN 1 ELSE iteration)
            /\ calls.enrich = 0 /\ calls.views = 0
            /\ calls.sheets = 0 /\ calls.rationalize = 0
            /\ outFile = NoFile /\ outWrites = 0
            /\ conceptSheets = <<>>
            /\ docs = (IF variant = "flat" THEN InitialDocs ELSE <<>>)
            /\ DOMAIN viewerFiles = {} /\ registry = <<>>)
    /\ [][DiscoveryThrew => calls' = calls]_vars

\* The second discovery iteration threw after the first had found concepts.
C2_Witness ==
    /\ DiscoveryThrew /\ variant = "flat" /\ pc = "aborted"
    /\ calls.discover = 2 /\ Len(allConcepts) > 0

LaterStageThrew ==
    /\ returned.stage \in {"enrich", "views", "sheets", "rationalize"}
    /\ IsThrown(returned.value)

\* C3: once Discovery has succeeded, a throw of a later oracle call
\* (enrichment, sheet generation, view synthesis, rationalization) does not
\* abort the run and the process does not exit with 1.
C3_NoAbortAfterDiscovery ==
    (calls.discover > 0 /\ LaterStageThrew) => (pc # "aborted" /\ exitCode # "exit1")

\* C4: with maxIterations = N the discovery loop issues at most N calls (5
\* when the option is undefined, none when it is NaN).
C4_IterationBound ==
    variant = "flat" =>
        LET n == opts.maxDiscoveryIterations
        IN  IF n = NaN THEN calls.discover = 0
            ELSE IF n = Undefined THEN calls.discover <= DefaultMaxIterations
            ELSE calls.discover <= n.num

\* Two iterations under a cap of two, each with a new name: the cap ended
\* the loop.
C4_Witness ==
    /\ variant = "flat" /\ pc = "clean"
    /\ opts.maxDiscoveryIterations = Num(2)
    /\ calls.discover = 2 /\ hasMoreConcepts
    /\ Len(allConcepts) >= 2

AllKnown(result, all) ==
    \A i \in 1..Len(result.concepts) :
        \E j \in 1..Len(all) : all[j].name = result.concepts[i].name

\* C5: when every name an iteration returns is already in the accumulator
\* (an empty response included), the accumulator is left as it is,
\* hasMoreConcepts becomes false, and from then on no discovery call is
\* issued: the loop is left for generateConceptSheets.
C5_ConvergenceStops ==
    [][ /\ (pc = "discoverAwait" /\ pc' = "discoverLoop"
               /\ AllKnown(returned'.value, allConcepts)) =>
              (hasMoreConcepts' = FALSE /\ allConcepts' = allConcepts)
        /\ (pc = "discoverLoop" /\ ~hasMoreConcepts) =>
              (calls' = calls /\ pc' = "clean")
      ]_vars

\* A response of known names only ended the loop while iterations remained.
C5_Witness ==
    /\ variant = "flat" /\ pc = "clean" /\ ~hasMoreConcepts
    /\ returned.stage = "discover" /\ Len(returned.value.concepts) > 0
    /\ opts.maxDiscoveryIterations = Num(3) /\ iteration = 3
    /\ Len(allConcepts) > 0

InDiscovery == pc \in {"discoverLoop", "discoverAwait"}

\* C6: the discovery loop terminates: every response advances the iteration
\* counter by one, the loop is never entered with the counter above the cap,
\* and a run in the loop eventually leaves it.
C6_DiscoveryTerminates ==
    /\ [][(pc = "discoverAwait" /\ pc' = "discoverLoop") => iteration' = iteration + 1]_vars
    /\ [](pc = "discoverAwait" =>
             /\ opts.maxDiscoveryIterations # NaN
             /\ iteration <= (IF opts.maxDiscoveryIterations = Undefined
                              THEN DefaultMaxIterations
                              ELSE opts.maxDiscoveryIterations.num))
    /\ (InDiscovery ~> ~InDiscovery)

\* Three iterations under a cap of three, the oracle still proposing.
C6_Witness ==
    /\ variant = "flat" /\ pc = "clean"
    /\ opts.maxDiscoveryIterations = Num(3)
    /\ calls.discover = 3 /\ hasMoreConcepts

\* C7: the accumulator never holds two concepts of the same name.
C7_UniqueNames ==
    \A i, j \in 1..Len(allConcepts) :
        i # j => allConcepts[i].name # allConcepts[j].name

\* C8: for a concept none of whose referenced files is in the file index, no
\* oracle call is issued; the concept is emitted unchanged but for its
\* references, the accumulators are left as they were, and the loop goes on
\* with the next concept.
C8_UnresolvedConceptSkipped ==
    [][ (/\ pc = "enrichConcept"
         /\ ci <= Len(modelsToProcess[mi].concepts)
         /\ ~Resolves(modelsToProcess[mi].concepts[ci])) =>
            /\ calls' = calls /\ inflight' = inflight
            /\ Len(enrichedConcepts') = Len(enrichedConcepts) + 1
            /\ SubSeq(enrichedConcepts', 1, Len(enrichedConcepts)) = enrichedConcepts
            /\ SameButReferences(enrichedConcepts'[Len(enrichedConcepts')],
                                 modelsToProcess[mi].concepts[ci])
            /\ allRelationships' = allRelationships
            /\ allRules' = allRules
            /\ allLifecycles' = allLifecycles
            /\ pc' = "enrichConcept" /\ mi' = mi /\ ci' = ci + 1
      ]_vars

\* Scenario A: the first concept has no resolvable file, the second has one
\* and carries the payload of the only call.
C8_Witness ==
    /\ pc = "enrichConcept" /\ mi = 1 /\ calls.enrich = 1
    /\ Len(enrichedConcepts) = 2
    /\ ~Resolves(modelsToProcess[1].concepts[1])
    /\ SameButReferences(enrichedConcepts[1], modelsToProcess[1].concepts[1])
    /\ Has(enrichedConcepts[2], "aliases") /\ enrichedConcepts[2].aliases = <<"alias">>

\* The concept record pushed by the try block of the step.
Emitted == enrichedConcepts'[Len(enrichedConcepts) + 1]

PayloadHas(e, f) == Has(e, "concept") /\ Has(e.concept, f)

\* C9, as claimed: a successful enrichment call emits the concept with the id
\* and the label it had after Discovery.
C9_IdAndLabelPreserved ==
    [][ (EnrichReturned /\ ~IsThrown(returned'.value)) =>
            /\ Emitted.id = modelsToProcess[mi].concepts[ci].id
            /\ Emitted.label = modelsToProcess[mi].concepts[ci].label
      ]_vars

\* C9, amended: a successful enrichment call emits the concept with the id it
\* had after Discovery; its label is the payload's label when the payload's
\* concept has one, and the label it had after Discovery otherwise.
C9_IdPreservedLabelUnlessOverridden ==
    [][ (EnrichReturned /\ ~IsThrown(returned'.value)) =>
            /\ Emitted.id = modelsToProcess[mi].concepts[ci].id
            /\ Emitted.label = (IF PayloadHas(returned'.value, "label")
                                THEN returned'.value.concept.label
                                ELSE modelsToProcess[mi].concepts[ci].label)
      ]_vars

\* A payload that sets id and label has been merged: the id is kept, the
\* label is the payload's.
C9_Witness ==
    /\ pc = "enrichConcept" /\ returned.stage = "enrich"
    /\ PayloadHas(returned.value, "id") /\ PayloadHas(returned.value, "label")
    /\ enrichedConcepts[Len(enrichedConcepts)].id = "order"
    /\ enrichedConcepts[Len(enrichedConcepts)].label = "Renamed"

ConceptIds(model) == [k \in 1..Len(model.concepts) |-> model.concepts[k].id]

\* C10: every concept of the discovered project is in the final project
\* exactly once, in the same model, in discovery order, with the same id.
C10_ConceptsKept ==
    finalProject # NoProject =>
        /\ Len(finalProject.models) = Len(discoveredProject.models)
        /\ \A m \in 1..Len(finalProject.models) :
              ConceptIds(finalProject.models[m]) = ConceptIds(discoveredProject.models[m])

IsPrefix(old, new) ==
    Len(old) <= Len(new) /\ SubSeq(new, 1, Len(old)) = old

ConceptProcessed == pc \in {"enrichConcept", "enrichAwait"} /\ pc' = "enrichConcept"

\* C11: during the enrichment of a model, every processed concept leaves each
\* of the relationship, rule and lifecycle accumulators equal to its previous
\* value with zero or more entries appended; the accumulators start from the
\* model's discovered lists, and the emitted model carries the accumulators.
C11_AccumulatorsAppendOnly ==
    [][ /\ ConceptProcessed =>
              /\ IsPrefix(allRelationships, allRelationships')
              /\ IsPrefix(allRules, allRules')
              /\ IsPrefix(allLifecycles, allLifecycles')
        /\ (pc = "enrichModel" /\ pc' = "enrichConcept") =>
              /\ allRelationships' = OrEmpty(modelsToProcess[mi], "relationships")
              /\ allRules' = OrEmpty(modelsToProcess[mi], "rules")
              /\ allLifecycles' = OrEmpty(modelsToProcess[mi], "lifecycles")
        /\ (pc = "enrichConcept" /\ pc' = "enrichModel") =>
              LET out == enrichedModels'[Len(enrichedModels')]
              IN  /\ IsPrefix(OrEmpty(modelsToProcess[mi], "relationships"),
                              out.relationships)
                  /\ out.relationships = allRelationships
                  /\ out.rules = allRules
                  /\ out.lifecycles = allLifecycles
      ]_vars

\* The discovered relationship is followed by those of two enrichment calls.
C11_Witness ==
    /\ pc = "enrichConcept"
    /\ Len(allRelationships) = 3 /\ allRelationships[1] = Rel0
    /\ allRelationships[2].id = <<"rel", "order">>
    /\ Len(allRules) >= 1 /\ Len(allLifecycles) >= 1

\* The ids an enrichment prompt carries: the template interpolates the id of
\* the concept itself and no relationship.
ConceptIdsIn(prompt) == {prompt.conceptId}
RelationshipIdsIn(prompt) == {}

\* C12: the enrichment request for a later concept of a model names the
\* sibling concepts of the model and the ids of the relationships that the
\* enrichment of earlier concepts of the model has accumulated.
C12_RequestCarriesContext ==
    (/\ pc = "enrichAwait" /\ ci > 1
     /\ Len(allRelationships) > Len(OrEmpty(modelsToProcess[mi], "relationships"))) =>
        /\ \A k \in 1..Len(allRelationships) :
              allRelationships[k].id \in RelationshipIdsIn(request)
        /\ \A k \in 1..Len(modelsToProcess[mi].concepts) :
              modelsToProcess[mi].concepts[k].id \in ConceptIdsIn(request)

Started(name) == \E k \in 1..Len(stages) : stages[k] = name

StagedDone == variant = "staged" /\ pc = "done"

ViewReturned == pc = "viewAwait" /\ pc' = "viewModel"

LastWithViews == modelsWithViews'[Len(modelsWithViews')]

\* C14: when the view design call for a model throws, the model is emitted
\* with an empty views list, the models emitted before it are left as they
\* were, the run is not aborted, and the loop goes on with the next model:
\* a successful run has issued one view design call per model.
C14_ViewFailureIsolated ==
    /\ [][ (ViewReturned /\ IsThrown(returned'.value)) =>
              /\ Len(modelsWithViews') = Len(modelsWithViews) + 1
              /\ SubSeq(modelsWithViews', 1, Len(modelsWithViews)) = modelsWithViews
              /\ Has(LastWithViews, "views") /\ LastWithViews.views = <<>>
              /\ Without(LastWithViews, "views") = enrichedModels[mi]
              /\ mi' = mi + 1 /\ exitCode' = exitCode
         ]_vars
    /\ []((variant = "staged" /\ pc = "done") =>
              /\ calls.views = Len(enrichedModels)
              /\ Len(modelsWithViews) = Len(enrichedModels))

\* The call for the first model threw; the call for the second is in flight.
C14_Witness ==
    /\ pc = "viewAwait" /\ mi = 2 /\ inflight = 1 /\ calls.views = 2
    /\ returned.stage = "views" /\ IsThrown(returned.value)
    /\ Len(modelsWithViews) = 1 /\ modelsWithViews[1].views = <<>>

OutOfBounds(view) ==
    \/ Len(view.conceptIds) < MinViewConcepts
    \/ Len(view.conceptIds) > MaxViewConcepts
    \/ Len(view.relationshipIds) < MinViewRelationships
    \/ Len(view.relationshipIds) > MaxViewRelationships

\* C15: the views a view design call returns are stored in the model as they
\* are, whatever the number of their concept ids and relationship ids.
C15_ViewsStoredUnbounded ==
    [][ (ViewReturned /\ ~IsThrown(returned'.value) /\ Has(returned'.value, "views")) =>
            /\ Has(LastWithViews, "views")
            /\ LastWithViews.views = returned'.value.views
      ]_vars

\* A stored view of ten concept ids and eleven relationship ids.
C15_Witness ==
    \E k \in 1..Len(modelsWithViews) :
        \E v \in 1..Len(modelsWithViews[k].views) :
            /\ Len(modelsWithViews[k].views[v].conceptIds) = MaxViewConcepts + 2
            /\ Len(modelsWithViews[k].views[v].relationshipIds) > MaxViewRelationships
            /\ OutOfBounds(modelsWithViews[k].views[v])

\* concept-model.json holds the sheets as rationalizeContexts returned them.
Rationalized ==
    /\ variant = "flat" /\ outFile # NoFile
    /\ returned.stage = "rationalize" /\ ~IsThrown(returned.value)

Proposal == returned.value.contexts

Lists(context, name) ==
    \E j \in 1..Len(context.conceptNames) : context.conceptNames[j] = name

Listed(contexts, name) == \E i \in 1..Len(contexts) : Lists(contexts[i], name)

C17_UnlistedDocumentsKept ==
    Rationalized =>
        /\ Len(outFile.concepts) = Len(conceptSheets)
        /\ \A k \in 1..Len(conceptSheets) :
              /\ outFile.concepts[k].metadata.name = conceptSheets[k].metadata.name
              /\ ~Listed(Proposal, conceptSheets[k].metadata.name) =>
                    outFile.concepts[k] = conceptSheets[k]

\* The proposal lists A and a: the document B b stays under Billing while A
\* moves.
C17_Witness ==
    /\ Rationalized /\ Len(conceptSheets) >= 2
    /\ \E k \in 1..Len(conceptSheets) :
          /\ ~Listed(Proposal, conceptSheets[k].metadata.name)
          /\ Has(outFile.concepts[k].metadata, "boundedContext")
          /\ outFile.concepts[k].metadata.boundedContext = "Billing"
    /\ \E k \in 1..Len(conceptSheets) :
          /\ Listed(Proposal, conceptSheets[k].metadata.name)
          /\ outFile.concepts[k] # conceptSheets[k]

\* C18: applying the Rationalization merge with the same proposal to its own
\* output changes no document.
C18_RationalizationIdempotent ==
    Rationalized => UpdatedSheets(Proposal, outFile.concepts) = outFile.concepts

\* A first application that relabelled documents, under a proposal of two
\* contexts that both list A.
C18_Witness ==
    /\ Rationalized /\ Len(Proposal) = 2 /\ Len(conceptSheets) >= 2
    /\ outFile.concepts # conceptSheets
    /\ \E k \in 1..Len(conceptSheets) :
          outFile.concepts[k].metadata.boundedContext = "Identity"

NoDuplicateIds(projects) ==
    \A i, j \in 1..Len(projects) : projects[i].id = projects[j].id => i = j

RegistryWritten == pc = "publishRegistry" /\ registry' # registry

\* C19: publishing upserts the registry by the sanitised id: a publish that
\* writes the registry leaves exactly one entry of that id, at the place of
\* the entry it replaces, or at the end when there was none, and no other
\* entry is touched; from a registry without duplicate ids the ids stay
\* unique over any sequence of publishes.
C19_RegistryUpsert ==
    /\ [](NoDuplicateIds(registry))
    /\ [][ RegistryWritten =>
             LET id == SafeName(PublishedId)
                 at == {k \in 1..Len(registry) : registry[k].id = id}
             IN  /\ Cardinality({k \in 1..Len(registry') : registry'[k].id = id}) = 1
                 /\ IF at # {}
                    THEN /\ Len(registry') = Len(registry)
                         /\ \A k \in 1..Len(registry) :
                               IF k \in at
                               THEN /\ registry'[k].id = id
                                    /\ registry'[k].name = PublishedName
                               ELSE registry'[k] = registry[k]
                    ELSE /\ Len(registry') = Len(registry) + 1
                         /\ SubSeq(registry', 1, Len(registry)) = registry
                         /\ registry'[Len(registry')].name = PublishedName
         ]_vars

\* The stale entry of pa was replaced in place, before the old entry, and a
\* later publish of another project was appended.
C19_Witness ==
    /\ pc = "done" /\ Len(registry) = 3
    /\ registry[1].id = <<"p", "a">> /\ registry[1].name # StaleEntry.name
    /\ registry[2] = OldEntry
    /\ registry[3].id = <<"m", "y", "-", "a", "p">>

\* C20: at most one oracle call is in flight at any moment of a run, and a
\* call of any stage is issued only when no call is in flight.
C20_OneCallInFlight ==
    /\ [](inflight \in {0, 1})
    /\ [](inflight = 1 <=> request # NoRequest)
    /\ [][calls' # calls => (inflight = 0 /\ inflight' = 1
                             /\ TotalCalls' = TotalCalls + 1)]_vars

\* The view design call of the second model is the only call in flight, after
\* one discovery call and two enrichment calls.
C20_Witness ==
    /\ pc = "viewAwait" /\ inflight = 1
    /\ calls.discover = 1 /\ calls.enrich = 2 /\ calls.views = 2

SheetReturned == pc = "sheetAwait" /\ pc' = "sheetLoop"

\* The sheets generated so far whose document has the file name n.
SheetsNamed(n) == {k \in 1..Len(conceptSheets) : DocName(conceptSheets[k]) = n}

SomethingPersisted ==
    outFile # NoFile \/ outWrites > 0 \/ DOMAIN viewerFiles # {} \/ registry # <<>>

\* C22, as claimed: every completed run of the staged variant has written
\* the Project artifact exactly once.
C22_WrittenExactlyOnce ==
    StagedDone => (outWrites = 1 /\ outFile = finalProject)

\* C22, amended: a run of the staged variant writes the Project artifact at
\* most once: exactly once when it completes and an output directory is
\* given, never otherwise.  Whatever is persisted (the artifact, the viewer
\* file, the registry) is written after the last enrichment and view design
\* call has returned or thrown: no call is in flight, every model has its
\* views entry, and no oracle call is issued afterwards; an aborted run has
\* persisted nothing.
C22_WrittenOnceAtTheEnd ==
    /\ [](variant = "staged" =>
            /\ outWrites <= 1
            /\ StagedDone => outWrites = (IF opts.outDir # "" THEN 1 ELSE 0)
            /\ SomethingPersisted =>
                  /\ pc \in {"publish", "publishProject", "publishRegistry", "done"}
                  /\ inflight = 0
                  /\ Len(enrichedModels) = Len(modelsToProcess)
                  /\ Len(modelsWithViews) = Len(enrichedModels)
                  /\ calls.views = Len(enrichedModels)
                  /\ outWrites = 1 => outFile = finalProject
            /\ pc = "aborted" => ~SomethingPersisted)
    /\ [][(variant = "staged" /\ SomethingPersisted) => calls' = calls]_vars
    /\ [][(variant = "staged" /\ outWrites' # outWrites) =>
             (pc = "write" /\ outWrites = 0 /\ inflight = 0)]_vars

\* A completed run with an output directory: one write, after enrichment
\* calls and after the view design call of the last model threw.
C22_Witness ==
    /\ StagedDone /\ opts.outDir # "" /\ outWrites = 1 /\ outFile = finalProject
    /\ calls.enrich >= 2 /\ calls.views = 2
    /\ returned.stage = "views" /\ IsThrown(returned.value)
    /\ registry # <<>>

\* The run ended: analyzeRepo resolved or threw.
Ended == pc \in {"done", "aborted"}

\* An oracle call threw, or the API key is missing.
AbortCause ==
    \/ opts.apiKey \in {"", "undefined"}
    \/ returned.stage \in {"overview", "discover", "rationalize"} /\ IsThrown(returned.value)

ParsedContents ==
    { <<<<"{", "}">>, JsObject>>,
      <<<<"{", " ", "}">>, JsObject>>,
      <<<<"[", "]">>, JsArray(<<>>)>>,
      <<<<"[", "1", ",", "2", "]">>, JsArray(<<JsNumber(1), JsNumber(2)>>)>>,
      <<<<" ", "1", "2", " ">>, JsNumber(12)>>,
      <<<<"[", "[", "3", "]", ",", "{", "}", "]">>,
        JsArray(<<JsArray(<<JsNumber(3)>>), JsObject>>)>> }

Parseable(c) == \E p \in ParsedContents : p[1] = c

CallReturned == variant = "callLLM" /\ pc = "done"

TransportFailed(resp) == resp \in {[rejected |-> TRUE], [ok |-> FALSE, status |-> 500]}

JsonMode == ResponseFormat(opts.options) = "json_object"

\* C24, as claimed: callLLM throws exactly when the transport call does not
\* succeed or, in json_object mode, the content is not parseable; with a
\* successful transport call it returns the content as text in text mode.
C24_FailsOnTransportOrParseOnly ==
    CallReturned =>
        LET resp == returned.response
            result == returned.value
        IN  /\ IsThrown(result) <=>
                  \/ TransportFailed(resp)
                  \/ JsonMode /\ ~\E p \in ParsedContents : resp = Completion(p[1])
            /\ \A c \in Contents :
                  (resp = Completion(c) /\ ~JsonMode) => result = JsString(c)

\* C24, amended: callLLM throws when fetch is rejected, when the status is
\* not OK, when the body is not JSON, when the body carries no content or an
\* empty one and, in json_object mode, when the content is not a JSON text;
\* in every other case it returns the content as it is in text mode (no
\* options, no format, or 'text') and the parsed value in json_object mode.
C24_CallLLMOutcome ==
    CallReturned =>
        LET resp == returned.response
            result == returned.value
        IN  /\ TransportFailed(resp) => IsThrown(result)
            /\ resp = [ok |-> TRUE] => IsThrown(result)
            /\ resp \in NoContentResponses => IsThrown(result)
            /\ resp = Completion(<<>>) => IsThrown(result)
            /\ \A c \in Contents \ {<<>>} :
                  resp = Completion(c) =>
                     IF ~JsonMode THEN result = JsString(c)
                     ELSE IF Parseable(c)
                          THEN \E p \in ParsedContents : p[1] = c /\ result = p[2]
                          ELSE IsThrown(result)

\* A call in json_object mode returned the array [1, 2] parsed from the text
\* "[1,2]".
C24_Witness ==
    /\ CallReturned /\ JsonMode
    /\ returned.response = Completion(<<"[", "1", ",", "2", "]">>)
    /\ returned.value = JsArray(<<JsNumber(1), JsNumber(2)>>)

DiagramBuilt == variant = "viewer" /\ pc = "done"

IsConceptNode(graph, id) ==
    \E k \in 1..Len(graph.nodes) :
        graph.nodes[k].type = "concept" /\ graph.nodes[k].id = id

\* C25: buildDiagramGraph, given a view that names concepts or relationships
\* the model does not have, returns a graph, and the source and the target of
\* every edge of the graph are concept nodes of the graph.
C25_EdgesJoinConceptNodes ==
    DiagramBuilt =>
        /\ Has(returned.value, "nodes") /\ Has(returned.value, "edges")
        /\ \A k \in 1..Len(returned.value.edges) :
              /\ IsConceptNode(returned.value, returned.value.edges[k].source)
              /\ IsConceptNode(returned.value, returned.value.edges[k].target)

Cleaning == pc = "clean" /\ opts.clean /\ opts.outDir # ""

KeyMissing == variant \in {"staged", "flat"} /\ opts.apiKey \in {"", "undefined"}

\* C27: when CONCEPTGEN_API_KEY is unset or empty, analyzeRepo throws at its
\* first step: the process exits with 1, no oracle call is ever issued, the
\* output directory is left as it was, and neither the artifact, nor a viewer
\* file, nor the registry is written.
C27_ApiKeyRequired ==
    /\ [](KeyMissing =>
            /\ pc \in {"start", "aborted"}
            /\ pc = "aborted" => exitCode = "exit1"
            /\ TotalCalls = 0 /\ inflight = 0 /\ request = NoRequest
            /\ stages = <<>>
            /\ outFile = NoFile /\ outWrites = 0
            /\ docs = (IF variant = "flat" THEN InitialDocs ELSE <<>>)
            /\ DOMAIN viewerFiles = {} /\ registry = <<>>)
    /\ [][(KeyMissing /\ pc = "start") => pc' = "aborted"]_vars

\* A staged run without the variable has ended with exit code 1.
C27_Witness ==
    /\ variant = "staged" /\ opts.apiKey = "undefined"
    /\ pc = "aborted" /\ exitCode = "exit1" /\ TotalCalls = 0

\* generateConceptSheets has returned.
SheetsGenerated ==
    variant = "flat" /\ pc \in {"rationalizeAwait", "publish", "publishProject",
                                "publishRegistry", "done"}

\* The documents the run has written: the files that hold a generated sheet.
WrittenDocuments ==
    {n \in DOMAIN docs : \E k \in 1..Len(conceptSheets) : docs[n] = conceptSheets[k]}

\* C28: when generateConceptSheets has returned, the number of distinct
\* concept documents written equals the number of sheets returned, and the
\* document of every sheet holds that sheet.
C28_OneDocumentPerSheet ==
    SheetsGenerated =>
        /\ Cardinality(WrittenDocuments) = Len(conceptSheets)
        /\ \A k \in 1..Len(conceptSheets) :
              /\ DocName(conceptSheets[k]) \in DOMAIN docs
              /\ docs[DocName(conceptSheets[k])] = conceptSheets[k]

\* The sheets are answers to candidates already passed, in candidate order:
\* a strictly increasing choice of candidates with relevant files, one per
\* sheet, each sheet an answer the sheet call can give for its candidate.
InCandidateOrder ==
    \E f \in [1..Len(conceptSheets) -> 1..(ci - 1)] :
        /\ \A i, j \in 1..Len(conceptSheets) : i < j => f[i] < f[j]
        /\ \A k \in 1..Len(conceptSheets) :
              /\ Resolves(allConcepts[f[k]])
              /\ conceptSheets[k] \in SheetResults(allConcepts[f[k]]) \ {Thrown}

\* C29: in generateConceptSheets a throw of the sheet call of one candidate
\* adds no sheet and writes no document, does not abort the run, and the
\* loop goes on with the next candidate; the loop is left only after the
\* last candidate, with one call issued per candidate that has relevant
\* files, and the sheets are in candidate order.
C29_SheetFailureIsolated ==
    /\ [][ (SheetReturned /\ IsThrown(returned'.value)) =>
              /\ conceptSheets' = conceptSheets /\ docs' = docs
              /\ ci' = ci + 1 /\ exitCode' = exitCode
         ]_vars
    /\ [][ (pc \in {"sheetLoop", "sheetAwait"} /\ pc' \notin {"sheetLoop", "sheetAwait"}) =>
              /\ ci = Len(allConcepts) + 1 /\ pc' = "rationalizeAwait"
              /\ calls.sheets =
                    Cardinality({k \in 1..Len(allConcepts) : Resolves(allConcepts[k])})
         ]_vars
    /\ []((variant = "flat" /\ pc \in {"sheetLoop", "sheetAwait", "rationalizeAwait"}) =>
              InCandidateOrder)

\* The call for the first candidate threw and the call for the second
\* returned: one sheet, that of the second candidate, and its document.
C29_Witness ==
    /\ variant = "flat" /\ pc = "rationalizeAwait"
    /\ Len(allConcepts) = 2 /\ calls.sheets = 2
    /\ Len(conceptSheets) = 1
    /\ conceptSheets[1] = SheetFor(allConcepts[2])
    /\ docs[DocName(conceptSheets[1])] = conceptSheets[1]
    /\ Cardinality(WrittenDocuments) = 1

InViewSynthesis == pc \in {"viewModel", "viewAwait"}

\* The parts of a model that Enrichment produced.
EnrichedParts(model) ==
    [id |-> model.id, concepts |-> model.concepts, relationships |-> model.relationships,
     rules |-> model.rules, lifecycles |-> model.lifecycles]

\* C30: View Synthesis changes nothing but the views of each model.  While
\* it runs the enriched models are left as they are; every model it emits is
\* the enriched model of the same position with a views field and no other
\* difference, whether the view design call returned or threw; the project
\* it returns has the enriched models in number, order and ids, with their
\* concepts, relationships, rules and lifecycles, and is the discovered
\* project in every field but models.
C30_EnrichmentFrozen ==
    /\ [][ InViewSynthesis =>
              (enrichedModels' = enrichedModels /\ discoveredProject' = discoveredProject)
         ]_vars
    /\ [][ ViewReturned =>
              /\ Len(modelsWithViews') = Len(modelsWithViews) + 1
              /\ SubSeq(modelsWithViews', 1, Len(modelsWithViews)) = modelsWithViews
              /\ DOMAIN LastWithViews = (DOMAIN enrichedModels[mi]) \cup {"views"}
              /\ \A f \in (DOMAIN enrichedModels[mi]) \ {"views"} :
                    LastWithViews[f] = enrichedModels[mi][f]
         ]_vars
    /\ []((variant = "staged" /\ finalProject # NoProject) =>
              /\ Len(finalProject.models) = Len(enrichedModels)
              /\ \A k \in 1..Len(enrichedModels) :
                    EnrichedParts(finalProject.models[k]) = EnrichedParts(enrichedModels[k])
              /\ Without(finalProject, "models") = Without(discoveredProject, "models"))

\* A project of two models: the view design call of the first returned two
\* views, that of the second threw; both models keep what Enrichment gave
\* them.
C30_Witness ==
    /\ variant = "staged" /\ finalProject # NoProject
    /\ Len(finalProject.models) = 2
    /\ Len(finalProject.models[1].views) = 2 /\ finalProject.models[2].views = <<>>
    /\ returned.stage = "views" /\ IsThrown(returned.value)
    /\ Len(finalProject.models[1].relationships) >= 2
    /\ finalProject.models[1].relationships = enrichedModels[1].relationships
    /\ Len(finalProject.models[2].concepts) >= 1

(***************************************************************************)
(* C31..C35: publishing to the viewer, and the frame of rationalization.   *)
(***************************************************************************)
Publishing == pc \in {"publish", "publishProject", "publishRegistry"}

ViewerAvailable == opts.publish # "false" /\ opts.viewerDir

\* C31: publishing happens only if the viewer is available and never fails
\* the run: without the viewer directory (or with publish switched off)
\* publishToViewer writes nothing and the run completes; every step of the
\* publish, an error of either write included, leaves the persisted artifact
\* and the documents as they are, moves on towards the end of the run and
\* never aborts it, and the run ends with exit code 0.
C31_PublishNeverFailsTheRun ==
    /\ [][ Publishing =>
             /\ outFile' = outFile /\ outWrites' = outWrites /\ docs' = docs
             /\ pc' # "aborted" /\ exitCode' # "exit1"
             /\ \/ pc = "publish" /\ pc' \in {"publishProject", "done"}
                \/ pc = "publishProject" /\ pc' \in {"publishRegistry", "done"}
                \/ pc = "publishRegistry" /\ pc' = "done"
             /\ pc' = "done" => exitCode' = "exit0"
             /\ ~ViewerAvailable =>
                  /\ pc' = "done"
                  /\ viewerFiles' = viewerFiles /\ registry' = registry
         ]_vars
    /\ [][ (viewerFiles' # viewerFiles \/ registry' # registry) =>
              (Publishing /\ ViewerAvailable) ]_vars

\* A staged run that wrote its artifact, failed to write the viewer's project
\* file, and completed with exit code 0 and the artifact in place.
C31_Witness ==
    /\ variant = "staged" /\ pc = "done" /\ exitCode = "exit0"
    /\ ViewerAvailable
    /\ outFile = finalProject /\ outWrites = 1
    /\ viewerFiles = <<>> /\ registry = <<>>

\* The entries of the registry that a publish of the pipeline wrote: all but
\* the entries the file held before the first run.
WrittenEntries ==
    {k \in 1..Len(registry) : registry[k] \notin {OldEntry, StaleEntry}}

\* models/<safeName>.json exists in the viewer's public directory.
ProjectFileWritten(entry) == Has(viewerFiles, entry.path[2])

\* C32: the project file is written before the registry: every registry entry
\* written by the pipeline refers to a project file that has been written,
\* in every state, and the step that writes the registry finds the file of
\* the published project in place, holding what is published, and leaves the
\* files alone.
C32_ProjectFileBeforeRegistry ==
    /\ [](\A k \in WrittenEntries :
             /\ registry[k].path = <<"models", registry[k].id>>
             /\ ProjectFileWritten(registry[k]))
    /\ [][ registry' # registry =>
             /\ Has(viewerFiles, SafeName(PublishedId))
             /\ viewerFiles[SafeName(PublishedId)] = PublishedContent
             /\ viewerFiles' = viewerFiles ]_vars

\* After two runs: one project is in the registry with its file, and the
\* other has its file and no entry, its run having failed between the two
\* writes.
C32_Witness ==
    /\ pc = "done" /\ WrittenEntries # {}
    /\ \E id \in DOMAIN viewerFiles :
          \A k \in 1..Len(registry) : registry[k].id # id

\* The file of a published project (the staged variant publishes the project
\* itself, which carries its id).
HoldsProject(files, safeName) == Has(files, safeName) /\ Has(files[safeName], "id")

\* C33: two projects with different ids never overwrite each other when
\* published: no publish replaces the project file of a project with another
\* id, and no publish replaces the registry entry of a project with another
\* name, so that after publishing both each has its own file and entry (the
\* published projects are named by their ids).
C33_DifferentIdsKeptApart ==
    [][ /\ \A safeName \in DOMAIN viewerFiles :
             (HoldsProject(viewerFiles, safeName) /\ HoldsProject(viewerFiles', safeName))
                => viewerFiles'[safeName].id = viewerFiles[safeName].id
        /\ (variant = "staged" /\ RegistryWritten) =>
             \A k \in WrittenEntries :
                 (k <= Len(registry') /\ registry'[k] # registry[k])
                    => registry[k].name = finalProject.name
      ]_vars

\* The entries of the other projects, in their order.
OtherEntries(projects, id) ==
    LET Other(entry) == entry.id # id IN SelectSeq(projects, Other)

SameButContext(out, in) ==
    /\ Without(out, "metadata") = Without(in, "metadata")
    /\ Without(out.metadata, "boundedContext") = Without(in.metadata, "boundedContext")

\* C35: rationalizeContexts returns as many documents as it was given, in the
\* same order, each equal to its input document in every field except
\* possibly metadata.boundedContext, and the input documents are the same
\* after the call as before it, whether it returns or throws.
C35_RationalizationFrame ==
    [][ pc = "rationalizeAwait" =>
          /\ conceptSheets' = conceptSheets
          /\ pc' = "publish" =>
               /\ Len(outFile'.concepts) = Len(conceptSheets)
               /\ \A k \in 1..Len(conceptSheets) :
                     SameButContext(outFile'.concepts[k], conceptSheets[k])
      ]_vars

\* Two documents went in; the first came back under a new context, the
\* second as it was, and the input still has the first under its old one.
C35_Witness ==
    /\ variant = "flat" /\ Rationalized /\ Len(conceptSheets) = 2
    /\ Len(outFile.concepts) = 2
    /\ outFile.concepts[1] # conceptSheets[1]
    /\ outFile.concepts[1].metadata.name = conceptSheets[1].metadata.name
    /\ outFile.concepts[2] = conceptSheets[2]

(***************************************************************************)
(* C36..C38: the story viewers.                                            *)
(***************************************************************************)
Mounted == variant = "story" /\ pc # "crashed"

ExistingStep(index) == index \in 0..(totalSteps - 1)

\* C36: in the story viewers the current step index, which selects the
\* current step, and the step index the revealed items are computed from,
\* refer to an existing step of the displayed story after any sequence of
\* Previous and Next clicks, step-through toggles and switches to another
\* story, so that no render and no effect fails on a missing step.
C36_StepIndexInRange ==
    variant = "story" =>
        /\ pc # "crashed"
        /\ ExistingStep(currentStepIndex)
        /\ ExistingStep(RevealStepIndex)

IdsOf(ids) == {ids[k] : k \in DOMAIN ids}

\* The concept ids and the relationship ids of steps 0..index of the story.
ConceptIdsUpTo(index) ==
    UNION {IdsOf(storyView.steps[k].conceptIds) :
              k \in 1..(IF index + 1 < totalSteps THEN index + 1 ELSE totalSteps)}

RelationshipIdsUpTo(index) ==
    UNION {IdsOf(storyView.steps[k].relationshipIds) :
              k \in 1..(IF index + 1 < totalSteps THEN index + 1 ELSE totalSteps)}

\* The timeouts that the reveal effect set when it last ran.
QueueOfLastEffect ==
    RevealEffect(CHOOSE story \in StoryViews : story.id = effect.storyView,
                 opts.model, effect.currentStepIndex).queue

\* C37 as stated: the revealed concept ids are at every moment among the
\* concept ids of steps 0..current.
C37_RevealedWithinCurrentSteps ==
    Mounted => IdsOf(revealedConceptIds) \subseteq ConceptIdsUpTo(RevealStepIndex)

\* C37: when the current step changes, the reveal effect of the new step
\* starts with the timers of the previous step cleared: the pending timers
\* are at every moment timers of the step the effect last ran for, and the
\* run of the effect leaves exactly the timers of its own queue.  Once the
\* effect of the current step has run, the revealed concept and
\* relationship ids are among those of steps 0..current; in the render
\* between the change of step and that effect they are still the ids
\* revealed for the previous step.
C37_TimersOfTheCurrentStepOnly ==
    /\ []((Mounted /\ effect # NoEffect) =>
             \A k \in DOMAIN timers : Includes(QueueOfLastEffect, timers[k]))
    /\ [][ (variant = "story" /\ effect' # effect) =>
              timers' = RevealEffect(storyView, opts.model, effect'.currentStepIndex).queue
         ]_vars
    /\ []((variant = "story" /\ pc = "idle") =>
             /\ IdsOf(revealedConceptIds) \subseteq ConceptIdsUpTo(RevealStepIndex)
             /\ IdsOf(revealedRelationshipIds) \subseteq RelationshipIdsUpTo(RevealStepIndex))

\* The step has changed from 1 to 0 of the three-step story while the
\* timers of step 1 are pending, and the effects of the new render are
\* about to run.
C37_Witness ==
    /\ variant = "story" /\ pc = "committed"
    /\ storyView.id = "s1" /\ effect # NoEffect
    /\ effect.storyView = "s1" /\ effect.currentStepIndex = 1
    /\ RevealStepIndex = 0
    /\ timers # <<>>

\* C38: if the viewer stays on story step k, the progressive reveal shows
\* everything of steps 0..k in the end: once the effect of step k has run
\* and all its timers have fired, the revealed concept ids are the concept
\* ids of steps 0..k and the revealed relationship ids are the relationship
\* ids of steps 0..k.
C38_EverythingRevealed ==
    (variant = "story" /\ pc = "idle" /\ timers = <<>>) =>
        /\ IdsOf(revealedConceptIds) = ConceptIdsUpTo(RevealStepIndex)
        /\ IdsOf(revealedRelationshipIds) = RelationshipIdsUpTo(RevealStepIndex)

====
